---- MODULE Spec2Model ----
(***************************************************************************)
(* The system-catalog layer of Peloton: the trigger catalog (pg_trigger)   *)
(* and the schema catalog (pg_namespace) as state machines over their      *)
(* backing tables.  The storage engine, the compiled-scan bridge and the   *)
(* value system are collaborators; they are modelled by what the catalog   *)
(* code consumes from them.                                                *)
(***************************************************************************)
EXTENDS Integers, Sequences, FiniteSets, TLC

\* ------------------------------------------------------------------ bounds

\* OIDs the trigger catalog may hand out before the model stops allocating.
MaxOid == 2
\* Largest schema OID a caller passes to InsertSchema.
MaxSchemaOid == 3
\* Rows per catalog table when one caller works on both catalogs.
MaxCatalogRows == 1
\* Threads that call TriggerCatalog::GetInstance.
MaxCallers == 3
\* Characters in a text and in a pattern given to StringFunctions::Like.
MaxLen == 3
\* Bytes of the string given to StringFunctions::Substr.
MaxStrLength == 3
\* Characters of a string given to the trim functions, and of a trim set,
\* the terminating zero not counted.
MaxTrimLen == 3
MaxFromLen == 2

\* --------------------------------------------------------------- constants

\* Column positions of pg_trigger, in the order of the CREATE TABLE string.
TRIGGER_OID == 0
TABLE_OID == 1
TRIGGER_NAME == 2
FUNCTION_OID == 3
TRIGGER_TYPE == 4
FUNCTION_ARGS == 5
FIRE_CONDITION == 6
TIMESTAMP == 7

\* Index offset of the (trigger_name, table_oid) index: the primary key is
\* index 0, the three secondary indexes follow in creation order.
NAME_TABLE_KEY_2 == 3

\* Column positions of pg_namespace.
SCHEMA_OID == 0
SCHEMA_NAME == 1

\* The reserved "not found" OID, the largest oid_t: all 32 bits set.  An oid_t
\* is written as the int32_t that has the same bits.
INVALID_OID == -1

\* concurrency::TransactionContext *: the null pointer and a live transaction.
nullptr == "nullptr"
Txns == {nullptr, "txn"}
LiveTxns == {"txn"}

\* ------------------------------------------------------------ input domains

TableNames == {"A", "B"}
TriggerNames == {"t1", "t2"}
TriggerTypes == {1, 3}
\* The trigger definitions callers create on a table: name, type (an event
\* bitmask), function, arguments, serialized fire condition, timestamp.
TriggerDefs ==
  { [name |-> "t1", type |-> 1, proc |-> "f", args |-> "a",
     cond |-> <<7>>, ts |-> 0],
    [name |-> "t1", type |-> 3, proc |-> "f", args |-> "a",
     cond |-> <<8, 0>>, ts |-> 0],
    [name |-> "t2", type |-> 1, proc |-> "f", args |-> "a",
     cond |-> <<8, 0>>, ts |-> 0],
    [name |-> "t2", type |-> 3, proc |-> "f", args |-> "a",
     cond |-> <<7>>, ts |-> 0] }
SchemaOids == 1..MaxSchemaOid
SchemaNames == {"s1", "s2", "s3"}
Threads == {1, 2}
Callers == 1..MaxCallers
\* The transactions that callers of GetInstance hold.
CallerTxns == {"txn", "txn2"}

VARIABLES
  pg_trigger,       \* rows of the trigger catalog table, in physical order
  oid_,             \* the trigger catalog's OID counter
  trigger_indexes,  \* the indexes of pg_trigger
  trigger_list,     \* each data table's cached trigger list
  pg_namespace,     \* rows of the schema catalog table
  schema_indexes,   \* the indexes of pg_namespace
  ndebug,           \* the build: TRUE when PL_ASSERT compiles to nothing
  aborted,          \* the process was ended by a failed assertion
  pc,               \* each thread's position inside InsertTrigger
  tuple,            \* each thread's assembled, not yet inserted tuple
  ret,              \* the last call: operation, arguments, outcome, and
                    \* for an insert what the storage engine had to say
  live,             \* history: triggers inserted and not dropped since
  dropped_oids,     \* history, kept by the specification that reads it:
                    \* the OID each successful DropTrigger had found
  live_schemas,     \* history: schemas inserted, no DeleteSchema since
  trigger_catalog,  \* the function-local static of GetInstance: its
                    \* initialization guard, the transaction its constructor
                    \* was given, and how often the constructor was entered
  caller,           \* each caller's position inside GetInstance
  first_call,       \* history: the transaction of the first GetInstance call
  string_call       \* a call of a string function: its arguments and, once
                    \* the function has run, what it returned

vars == <<pg_trigger, oid_, trigger_indexes, trigger_list, pg_namespace,
          schema_indexes, ndebug, aborted, pc, tuple, ret, live, dropped_oids,
          live_schemas, trigger_catalog, caller, first_call, string_call>>

\* ------------------------------------------------------------ value system

\* type::ValueFactory::GetIntegerValue: the argument as an int32_t.  An oid_t
\* keeps its 32 bits, an int16_t is sign-extended: in both cases the number
\* that stands for the argument stands for the result.
GetIntegerValue(x) == x

\* type::ValueFactory::GetSmallIntValue of an int16_t argument.
GetSmallIntValue(x) == x

\* type::ValueFactory::GetVarcharValue and Value::ToString on a VARCHAR.
GetVarcharValue(s) == s
ValueToString(v) == v

\* Value::GetAs<oid_t> on an INTEGER value: its 32 bits, unchanged.
GetAs_oid_t(v) == v

\* Value::GetAs<int16_t> on an INTEGER value: its low 16 bits read as signed.
GetAs_int16_t(v) ==
  LET m == v % 65536 IN IF m >= 32768 THEN m - 65536 ELSE m

\* Value::GetData on a VARBINARY: the stored bytes.
GetData(v) == v

\* WrappedTuple::GetValue(i): the i-th projected column, counted from 0.
GetValue(wrapped_tuple, i) == wrapped_tuple[i + 1]

\* --------------------------------------------------------- predicate trees

TupleValueFactory(type, tuple_idx, col) ==
  [kind |-> "VALUE_TUPLE", type |-> type, col |-> col]
ConstantValueFactory(value) ==
  [kind |-> "VALUE_CONSTANT", value |-> value]
ComparisonFactory(kind, left, right) ==
  [kind |-> kind, left |-> left, right |-> right]
ConjunctionFactory(kind, left, right) ==
  [kind |-> kind, left |-> left, right |-> right]

\* A leaf's value on a row.  The column's own type decides the comparison;
\* the type a VALUE_TUPLE node was built with is replaced when the scan binds
\* the node to the table's column.
LeafValue(e, row) ==
  IF e.kind = "VALUE_TUPLE" THEN row[e.col] ELSE e.value

RECURSIVE Evaluate(_, _)
Evaluate(e, row) ==
  IF e.kind = "CONJUNCTION_AND"
    THEN Evaluate(e.left, row) /\ Evaluate(e.right, row)
    ELSE LeafValue(e.left, row) = LeafValue(e.right, row)

\* ----------------------------------------------------- abstract catalog

\* AbstractCatalog::GetResultWithCompiledSeqScan: every row of the table that
\* satisfies the predicate, in physical order, each carrying the requested
\* columns in the requested order.  A null transaction is a caller error.
GetResultWithCompiledSeqScan(table, column_ids, predicate, txn) ==
  IF txn = nullptr
    THEN [exc |-> TRUE, tuples |-> <<>>]
    ELSE LET m == SelectSeq(table, LAMBDA r : Evaluate(predicate, r))
         IN [exc |-> FALSE,
             tuples |-> [i \in 1..Len(m) |->
                          [j \in 1..Len(column_ids) |-> m[i][column_ids[j]]]]]

\* The key of a row on an index.
IndexKey(index, row) == [j \in 1..Len(index.cols) |-> row[index.cols[j]]]

\* AbstractCatalog::InsertTuple / InsertTupleWithCompiledPlan: one row written
\* through the storage engine, which rejects a row that repeats a key of a
\* primary-key or unique index and may fail for reasons of its own.
InsertTuple(table, indexes, row, txn, storage_ok) ==
  IF txn = nullptr
    THEN [exc |-> TRUE, ok |-> FALSE, table |-> table]
    ELSE IF storage_ok
            /\ \A k \in 1..Len(indexes) : indexes[k].unique =>
                 \A i \in 1..Len(table) :
                   IndexKey(indexes[k], table[i]) # IndexKey(indexes[k], row)
           THEN [exc |-> FALSE, ok |-> TRUE, table |-> Append(table, row)]
           ELSE [exc |-> FALSE, ok |-> FALSE, table |-> table]

\* AbstractCatalog::DeleteWithIndexScan: deletes every row whose key on the
\* index at index_offset equals the given values.
DeleteWithIndexScan(table, indexes, index_offset, values, txn, storage_ok) ==
  IF txn = nullptr
    THEN [exc |-> TRUE, ok |-> FALSE, table |-> table]
    ELSE IF storage_ok
           THEN [exc |-> FALSE, ok |-> TRUE,
                 table |-> SelectSeq(table, LAMBDA r :
                             IndexKey(indexes[index_offset + 1], r) # values)]
           ELSE [exc |-> FALSE, ok |-> FALSE, table |-> table]

\* AbstractCatalog::DeleteWithCompiledSeqScan: deletes every row that
\* satisfies the predicate.
DeleteWithCompiledSeqScan(table, column_ids, predicate, txn, storage_ok) ==
  IF txn = nullptr
    THEN [exc |-> TRUE, ok |-> FALSE, table |-> table]
    ELSE IF storage_ok
           THEN [exc |-> FALSE, ok |-> TRUE,
                 table |-> SelectSeq(table, LAMBDA r : ~Evaluate(predicate, r))]
           ELSE [exc |-> FALSE, ok |-> FALSE, table |-> table]

\* AbstractCatalog::GetNextOid: the counter's value, the counter advanced, as
\* one atomic step.
GetNextOid(counter) == [value |-> counter, next |-> counter + 1]

\* PL_ASSERT: checked unless the build defines NDEBUG.
PL_ASSERT(cond, no_debug) == no_debug \/ cond

\* Catalog::GetTableObject(...)->GetTableOid(): the OID of a named table.
GetTableOid(table_name) == IF table_name = "A" THEN 5 ELSE 6

TableOids == {GetTableOid(t) : t \in TableNames}

\* --------------------------------------------------- trigger catalog

\* Faulty variant of TriggerCatalogIndexes: the (trigger_name, table_oid)
\* index created unique.
TriggerCatalogIndexes_UniqueNameKey ==
  << [name |-> "pg_trigger_pkey", cols |-> <<TRIGGER_OID>>, unique |-> TRUE],
     [name |-> "pg_trigger_skey0", cols |-> <<TABLE_OID, TRIGGER_TYPE>>,
      unique |-> FALSE],
     [name |-> "pg_trigger_skey1", cols |-> <<TABLE_OID>>, unique |-> FALSE],
     [name |-> "pg_trigger_skey2", cols |-> <<TRIGGER_NAME, TABLE_OID>>,
      unique |-> TRUE] >>

\* TriggerCatalog::TriggerCatalog: the primary key of the CREATE TABLE string
\* and the three secondary indexes, none of them unique.
TriggerCatalogIndexes ==
  << [name |-> "pg_trigger_pkey", cols |-> <<TRIGGER_OID>>, unique |-> TRUE],
     [name |-> "pg_trigger_skey0", cols |-> <<TABLE_OID, TRIGGER_TYPE>>,
      unique |-> FALSE],
     [name |-> "pg_trigger_skey1", cols |-> <<TABLE_OID>>, unique |-> FALSE],
     [name |-> "pg_trigger_skey2", cols |-> <<TRIGGER_NAME, TABLE_OID>>,
      unique |-> FALSE] >>

\* Faulty variant of TriggerTuple: the OID column filled from table_oid instead of
\* the freshly allocated OID.
TriggerTuple_TableOidAsOid(oid, table_oid, trigger_name, trigger_type, proc_oid, function_arguments, fire_condition, timestamp) ==
  (TRIGGER_OID :> GetIntegerValue(table_oid))
    @@ (TABLE_OID :> GetIntegerValue(table_oid))
    @@ (TRIGGER_NAME :> GetVarcharValue(trigger_name))
    @@ (FUNCTION_OID :> GetVarcharValue(proc_oid))
    @@ (TRIGGER_TYPE :> GetIntegerValue(trigger_type))
    @@ (FUNCTION_ARGS :> GetVarcharValue(function_arguments))
    @@ (FIRE_CONDITION :> fire_condition)
    @@ (TIMESTAMP :> timestamp)

\* Faulty variant of TriggerTuple: the OID column filled with the counter's
\* first value whatever OID was allocated.
TriggerTuple_ConstantOid(oid, table_oid, trigger_name, trigger_type, proc_oid, function_arguments, fire_condition, timestamp) ==
  (TRIGGER_OID :> GetIntegerValue(0))
    @@ (TABLE_OID :> GetIntegerValue(table_oid))
    @@ (TRIGGER_NAME :> GetVarcharValue(trigger_name))
    @@ (FUNCTION_OID :> GetVarcharValue(proc_oid))
    @@ (TRIGGER_TYPE :> GetIntegerValue(trigger_type))
    @@ (FUNCTION_ARGS :> GetVarcharValue(function_arguments))
    @@ (FIRE_CONDITION :> fire_condition)
    @@ (TIMESTAMP :> timestamp)

\* InsertTrigger, lines 74-90: the tuple assembled from the arguments.
TriggerTuple(oid, table_oid, trigger_name, trigger_type, proc_oid, function_arguments, fire_condition, timestamp) ==
  (TRIGGER_OID :> GetIntegerValue(oid))
    @@ (TABLE_OID :> GetIntegerValue(table_oid))
    @@ (TRIGGER_NAME :> GetVarcharValue(trigger_name))
    @@ (FUNCTION_OID :> GetVarcharValue(proc_oid))
    @@ (TRIGGER_TYPE :> GetIntegerValue(trigger_type))
    @@ (FUNCTION_ARGS :> GetVarcharValue(function_arguments))
    @@ (FIRE_CONDITION :> fire_condition)
    @@ (TIMESTAMP :> timestamp)

\* GetTriggerOid, lines 139-158: trigger_name = name AND table_oid = oid.
GetTriggerOidPredicate(trigger_name, table_oid) ==
  ConjunctionFactory("CONJUNCTION_AND",
    ComparisonFactory("COMPARE_EQUAL",
      TupleValueFactory("VARCHAR", 0, TRIGGER_NAME),
      ConstantValueFactory(GetVarcharValue(trigger_name))),
    ComparisonFactory("COMPARE_EQUAL",
      TupleValueFactory("INTEGER", 0, TABLE_OID),
      ConstantValueFactory(GetIntegerValue(table_oid))))

\* TriggerCatalog::GetTriggerOid.
GetTriggerOid(trigger_name, table_oid, txn, table, no_debug) ==
  LET scan == GetResultWithCompiledSeqScan(table, <<TRIGGER_OID>>,
                GetTriggerOidPredicate(trigger_name, table_oid), txn)
      result_tuples == scan.tuples
  IN IF scan.exc
       THEN [status |-> "throw", value |-> INVALID_OID, scans |-> 0]
       ELSE IF Len(result_tuples) = 0
         THEN [status |-> "return", value |-> INVALID_OID, scans |-> 1]
         ELSE IF ~PL_ASSERT(Len(result_tuples) <= 1, no_debug)
           THEN [status |-> "abort", value |-> INVALID_OID, scans |-> 1]
           ELSE [status |-> "return",
                 value |-> GetAs_oid_t(GetValue(result_tuples[1], 0)),
                 scans |-> 1]

\* Faulty variant of DeleteTriggerByName: the scan made on the (table_oid)
\* index with the table's OID as its key.
DeleteTriggerByName_ByTable(trigger_name, table_oid, txn, table, indexes, storage_ok) ==
  DeleteWithIndexScan(table, indexes, NAME_TABLE_KEY_2 - 1,
    <<GetIntegerValue(table_oid)>>, txn, storage_ok)

\* TriggerCatalog::DeleteTriggerByName.
DeleteTriggerByName(trigger_name, table_oid, txn, table, indexes, storage_ok) ==
  DeleteWithIndexScan(table, indexes, NAME_TABLE_KEY_2,
    <<GetVarcharValue(trigger_name), GetIntegerValue(table_oid)>>,
    txn, storage_ok)

\* trigger::Trigger as the catalog constructs it.
Trigger(name, type, function_name, arguments, fire_condition) ==
  [trigger_name |-> name, trigger_type |-> type,
   trigger_funcname |-> function_name, trigger_args |-> arguments,
   fire_condition |-> fire_condition]

\* GetTriggersByType, lines 191-214.
GetTriggersByTypeColumnIds ==
  <<TRIGGER_NAME, FIRE_CONDITION, FUNCTION_OID, FUNCTION_ARGS>>

\* Faulty variant of GetTriggersByTypePredicate: the comparison on the type left out.
GetTriggersByTypePredicate_TableOnly(table_oid, trigger_type) ==
  ComparisonFactory("COMPARE_EQUAL",
    TupleValueFactory("INTEGER", 0, TABLE_OID),
    ConstantValueFactory(GetIntegerValue(table_oid)))

GetTriggersByTypePredicate(table_oid, trigger_type) ==
  ConjunctionFactory("CONJUNCTION_AND",
    ComparisonFactory("COMPARE_EQUAL",
      TupleValueFactory("SMALLINT", 0, TRIGGER_TYPE),
      ConstantValueFactory(GetSmallIntValue(trigger_type))),
    ComparisonFactory("COMPARE_EQUAL",
      TupleValueFactory("INTEGER", 0, TABLE_OID),
      ConstantValueFactory(GetIntegerValue(table_oid))))

\* GetTriggersByType, lines 229-233: one Trigger from one result tuple.
NewTriggerByType(result_tuple, trigger_type) ==
  Trigger(ValueToString(GetValue(result_tuple, 0)), trigger_type,
          ValueToString(GetValue(result_tuple, 2)),
          ValueToString(GetValue(result_tuple, 3)),
          GetData(GetValue(result_tuple, 1)))

\* Faulty variant of GetTriggersByType: the fire condition of every trigger read from
\* the first result tuple.
GetTriggersByType_FirstTupleCondition(table_oid, trigger_type, txn, table) ==
  LET scan == GetResultWithCompiledSeqScan(table, GetTriggersByTypeColumnIds,
                GetTriggersByTypePredicate(table_oid, trigger_type), txn)
      result_tuples == scan.tuples
  IN IF scan.exc
       THEN [status |-> "throw", value |-> <<>>, scans |-> 0]
       ELSE [status |-> "return",
             value |-> [i \in 1..Len(result_tuples) |->
                         Trigger(ValueToString(GetValue(result_tuples[i], 0)),
                                 trigger_type,
                                 ValueToString(GetValue(result_tuples[i], 2)),
                                 ValueToString(GetValue(result_tuples[i], 3)),
                                 GetData(GetValue(result_tuples[1], 1)))],
             scans |-> 1]

\* TriggerCatalog::GetTriggersByType.
GetTriggersByType(table_oid, trigger_type, txn, table) ==
  LET scan == GetResultWithCompiledSeqScan(table, GetTriggersByTypeColumnIds,
                GetTriggersByTypePredicate(table_oid, trigger_type), txn)
      result_tuples == scan.tuples
  IN IF scan.exc
       THEN [status |-> "throw", value |-> <<>>, scans |-> 0]
       ELSE [status |-> "return",
             value |-> [i \in 1..Len(result_tuples) |->
                         NewTriggerByType(result_tuples[i], trigger_type)],
             scans |-> 1]

\* GetTriggers, lines 245-255.
GetTriggersColumnIds ==
  <<TRIGGER_NAME, TRIGGER_TYPE, FIRE_CONDITION, FUNCTION_OID, FUNCTION_ARGS>>

\* Faulty variant of GetTriggersPredicate: the comparison made on the trigger's own
\* OID column instead of the owning table's.
GetTriggersPredicate_TriggerOid(table_oid) ==
  ComparisonFactory("COMPARE_EQUAL",
    TupleValueFactory("INTEGER", 0, TRIGGER_OID),
    ConstantValueFactory(GetIntegerValue(table_oid)))

GetTriggersPredicate(table_oid) ==
  ComparisonFactory("COMPARE_EQUAL",
    TupleValueFactory("INTEGER", 0, TABLE_OID),
    ConstantValueFactory(GetIntegerValue(table_oid)))

\* Faulty variant of NewTrigger: the function name and the arguments read
\* from each other's column.
NewTrigger_SwappedColumns(result_tuple) ==
  Trigger(ValueToString(GetValue(result_tuple, 0)),
          GetAs_int16_t(GetValue(result_tuple, 1)),
          ValueToString(GetValue(result_tuple, 4)),
          ValueToString(GetValue(result_tuple, 3)),
          GetData(GetValue(result_tuple, 2)))

\* GetTriggers, lines 269-274: one Trigger from one result tuple.
NewTrigger(result_tuple) ==
  Trigger(ValueToString(GetValue(result_tuple, 0)),
          GetAs_int16_t(GetValue(result_tuple, 1)),
          ValueToString(GetValue(result_tuple, 3)),
          ValueToString(GetValue(result_tuple, 4)),
          GetData(GetValue(result_tuple, 2)))

\* TriggerCatalog::GetTriggers.
GetTriggers(table_oid, txn, table) ==
  LET scan == GetResultWithCompiledSeqScan(table, GetTriggersColumnIds,
                GetTriggersPredicate(table_oid), txn)
      result_tuples == scan.tuples
  IN IF scan.exc
       THEN [status |-> "throw", value |-> <<>>, scans |-> 0]
       ELSE [status |-> "return",
             value |-> [i \in 1..Len(result_tuples) |->
                         NewTrigger(result_tuples[i])],
             scans |-> 1]

\* Faulty variant of DropTrigger: the result of DeleteTriggerByName is not tested.
DropTrigger_IgnoreDeleteResult(table_name, trigger_name, txn, table, indexes, no_debug, storage_ok) ==
  IF txn = nullptr
    THEN [status |-> "return", value |-> "FAILURE", table |-> table,
          refresh |-> FALSE, scans |-> 0]
    ELSE
      LET table_oid == GetTableOid(table_name)
          found == GetTriggerOid(trigger_name, table_oid, txn, table, no_debug)
          deleted == DeleteTriggerByName(trigger_name, table_oid, txn, table,
                                         indexes, storage_ok)
      IN IF found.status # "return"
           THEN [status |-> found.status, value |-> "FAILURE",
                 table |-> table, refresh |-> FALSE, scans |-> found.scans]
           ELSE IF found.value = INVALID_OID
             THEN [status |-> "return", value |-> "FAILURE", table |-> table,
                   refresh |-> FALSE, scans |-> 1]
             ELSE [status |-> "return", value |-> "SUCCESS",
                   table |-> deleted.table, refresh |-> TRUE, scans |-> 2]

\* Faulty variant of DropTrigger: the OID found is not compared with INVALID_OID.
DropTrigger_NoFoundCheck(table_name, trigger_name, txn, table, indexes, no_debug, storage_ok) ==
  IF txn = nullptr
    THEN [status |-> "return", value |-> "FAILURE", table |-> table,
          refresh |-> FALSE, scans |-> 0]
    ELSE
      LET table_oid == GetTableOid(table_name)
          found == GetTriggerOid(trigger_name, table_oid, txn, table, no_debug)
          deleted == DeleteTriggerByName(trigger_name, table_oid, txn, table,
                                         indexes, storage_ok)
      IN IF found.status # "return"
           THEN [status |-> found.status, value |-> "FAILURE",
                 table |-> table, refresh |-> FALSE, scans |-> found.scans]
           ELSE IF deleted.ok
             THEN [status |-> "return", value |-> "SUCCESS",
                   table |-> deleted.table, refresh |-> TRUE, scans |-> 2]
             ELSE [status |-> "return", value |-> "FAILURE",
                   table |-> table, refresh |-> FALSE, scans |-> 1]

\* TriggerCatalog::DropTrigger: the outcome, the table afterwards, and whether
\* the owning table was asked to refresh its trigger list.
DropTrigger(table_name, trigger_name, txn, table, indexes, no_debug, storage_ok) ==
  IF txn = nullptr
    THEN [status |-> "return", value |-> "FAILURE", table |-> table,
          refresh |-> FALSE, scans |-> 0]
    ELSE
      LET table_oid == GetTableOid(table_name)
          found == GetTriggerOid(trigger_name, table_oid, txn, table, no_debug)
          deleted == DeleteTriggerByName(trigger_name, table_oid, txn, table,
                                         indexes, storage_ok)
      IN IF found.status # "return"
           THEN [status |-> found.status, value |-> "FAILURE",
                 table |-> table, refresh |-> FALSE, scans |-> found.scans]
           ELSE IF found.value = INVALID_OID
             THEN [status |-> "return", value |-> "FAILURE", table |-> table,
                   refresh |-> FALSE, scans |-> 1]
             ELSE IF deleted.ok
               THEN [status |-> "return", value |-> "SUCCESS",
                     table |-> deleted.table, refresh |-> TRUE, scans |-> 2]
               ELSE [status |-> "return", value |-> "FAILURE",
                     table |-> table, refresh |-> FALSE, scans |-> 1]

\* storage::DataTable::UpdateTriggerListFromCatalog: the table's cached list
\* replaced by the catalog's triggers for that table.
UpdateTriggerListFromCatalog(cache, table_name, txn, table) ==
  [cache EXCEPT ![table_name] =
     GetTriggers(GetTableOid(table_name), txn, table).value]

\* Faulty variant of InsertTrigger: the tuple inserted under a transaction of
\* the catalog's own instead of the caller's.
InsertTrigger_OwnTxn(table_oid, trigger_name, trigger_type, proc_oid, function_arguments, fire_condition, timestamp, txn, table, indexes, counter, storage_ok) ==
  LET next_oid == GetNextOid(counter)
      row == TriggerTuple(next_oid.value, table_oid, trigger_name,
                          trigger_type, proc_oid, function_arguments,
                          fire_condition, timestamp)
      inserted == InsertTuple(table, indexes, row, "txn", storage_ok)
  IN [status |-> IF inserted.exc THEN "throw" ELSE "return",
      value |-> inserted.ok, table |-> inserted.table,
      counter |-> next_oid.next, oid |-> next_oid.value]

\* Faulty variant of InsertTrigger: the counter read, not advanced.
InsertTrigger_OidNotTaken(table_oid, trigger_name, trigger_type, proc_oid, function_arguments, fire_condition, timestamp, txn, table, indexes, counter, storage_ok) ==
  LET row == TriggerTuple(counter, table_oid, trigger_name,
                          trigger_type, proc_oid, function_arguments,
                          fire_condition, timestamp)
      inserted == InsertTuple(table, indexes, row, txn, storage_ok)
  IN [status |-> IF inserted.exc THEN "throw" ELSE "return",
      value |-> inserted.ok, table |-> inserted.table,
      counter |-> counter, oid |-> counter]

\* TriggerCatalog::InsertTrigger: a fresh OID, the tuple, one InsertTuple.
InsertTrigger(table_oid, trigger_name, trigger_type, proc_oid, function_arguments, fire_condition, timestamp, txn, table, indexes, counter, storage_ok) ==
  LET next_oid == GetNextOid(counter)
      row == TriggerTuple(next_oid.value, table_oid, trigger_name,
                          trigger_type, proc_oid, function_arguments,
                          fire_condition, timestamp)
      inserted == InsertTuple(table, indexes, row, txn, storage_ok)
  IN [status |-> IF inserted.exc THEN "throw" ELSE "return",
      value |-> inserted.ok, table |-> inserted.table,
      counter |-> next_oid.next, oid |-> next_oid.value]

\* ---------------------------------------------------- schema catalog

\* SchemaCatalog::SchemaCatalog: a primary key on schema_oid and a unique
\* index on schema_name.
SchemaCatalogIndexes ==
  << [name |-> "pg_namespace_pkey", cols |-> <<SCHEMA_OID>>, unique |-> TRUE],
     [name |-> "pg_namespace_skey0", cols |-> <<SCHEMA_NAME>>,
      unique |-> TRUE] >>

\* SchemaCatalog::InitializeSchema: the columns, in order.
all_column_ids == <<SCHEMA_OID, SCHEMA_NAME>>

\* InsertSchema, lines 83-89: the row built from the caller's constants.
SchemaTuple(schema_oid, schema_name) ==
  (SCHEMA_OID :> GetIntegerValue(schema_oid))
    @@ (SCHEMA_NAME :> GetVarcharValue(schema_name))

\* Faulty variant of InsertSchema: an insert the storage engine refused is
\* attempted a second time.
InsertSchema_Retry(schema_oid, schema_name, txn, table, indexes, storage_ok) ==
  LET inserted == InsertTuple(table, indexes,
                              SchemaTuple(schema_oid, schema_name),
                              txn, storage_ok)
      again == InsertTuple(table, indexes,
                           SchemaTuple(schema_oid, schema_name), txn, TRUE)
  IN IF inserted.exc \/ inserted.ok
       THEN [status |-> IF inserted.exc THEN "throw" ELSE "return",
             value |-> inserted.ok, table |-> inserted.table]
       ELSE [status |-> "return", value |-> again.ok, table |-> again.table]

\* SchemaCatalog::InsertSchema.
InsertSchema(schema_oid, schema_name, txn, table, indexes, storage_ok) ==
  LET inserted == InsertTuple(table, indexes,
                              SchemaTuple(schema_oid, schema_name),
                              txn, storage_ok)
  IN [status |-> IF inserted.exc THEN "throw" ELSE "return",
      value |-> inserted.ok, table |-> inserted.table]

\* Faulty variant of DeleteSchemaPredicate: a predicate every row satisfies.
DeleteSchemaPredicate_AlwaysTrue(schema_name) ==
  ComparisonFactory("COMPARE_EQUAL",
    ConstantValueFactory(GetVarcharValue(schema_name)),
    ConstantValueFactory(GetVarcharValue(schema_name)))

\* DeleteSchema, lines 99-110: schema_name = name.
DeleteSchemaPredicate(schema_name) ==
  ComparisonFactory("COMPARE_EQUAL",
    TupleValueFactory("INTEGER", 0, SCHEMA_NAME),
    ConstantValueFactory(GetVarcharValue(schema_name)))

\* SchemaCatalog::DeleteSchema.
DeleteSchema(schema_name, txn, table, storage_ok) ==
  LET deleted == DeleteWithCompiledSeqScan(table, all_column_ids,
                   DeleteSchemaPredicate(schema_name), txn, storage_ok)
  IN [status |-> IF deleted.exc THEN "throw" ELSE "return",
      value |-> deleted.ok, table |-> deleted.table]

\* Faulty variant of GetSchemaObjectPredicate: a predicate every row satisfies.
GetSchemaObjectPredicate_AlwaysTrue(schema_name) ==
  ComparisonFactory("COMPARE_EQUAL",
    ConstantValueFactory(GetVarcharValue(schema_name)),
    ConstantValueFactory(GetVarcharValue(schema_name)))

\* GetSchemaObject, lines 123-134: schema_name = name.
GetSchemaObjectPredicate(schema_name) ==
  ComparisonFactory("COMPARE_EQUAL",
    TupleValueFactory("INTEGER", 0, SCHEMA_NAME),
    ConstantValueFactory(GetVarcharValue(schema_name)))

\* SchemaCatalogObject::SchemaCatalogObject.
SchemaCatalogObject(wrapped_tuple, txn) ==
  [ptr |-> "object",
   schema_oid |-> GetAs_oid_t(GetValue(wrapped_tuple, SCHEMA_OID)),
   schema_name |-> ValueToString(GetValue(wrapped_tuple, SCHEMA_NAME)),
   txn |-> txn]

\* The empty std::shared_ptr<SchemaCatalogObject>.
NullSchemaObject == [ptr |-> "null"]

\* Faulty variant of GetSchemaObject: a null transaction answered with the null
\* object.
GetSchemaObject_NullOnNullTxn(schema_name, txn, table) ==
  IF txn = nullptr
    THEN [status |-> "return", value |-> NullSchemaObject, scans |-> 0]
    ELSE
      LET scan == GetResultWithCompiledSeqScan(table, all_column_ids,
                    GetSchemaObjectPredicate(schema_name), txn)
          result_tuples == scan.tuples
      IN IF Len(result_tuples) = 1
           THEN [status |-> "return",
                 value |-> SchemaCatalogObject(result_tuples[1], txn),
                 scans |-> 1]
           ELSE [status |-> "return", value |-> NullSchemaObject,
                 scans |-> 1]

\* SchemaCatalog::GetSchemaObject.
GetSchemaObject(schema_name, txn, table) ==
  IF txn = nullptr
    THEN [status |-> "throw", value |-> NullSchemaObject, scans |-> 0]
    ELSE
      LET scan == GetResultWithCompiledSeqScan(table, all_column_ids,
                    GetSchemaObjectPredicate(schema_name), txn)
          result_tuples == scan.tuples
      IN IF Len(result_tuples) = 1
           THEN [status |-> "return",
                 value |-> SchemaCatalogObject(result_tuples[1], txn),
                 scans |-> 1]
           ELSE [status |-> "return", value |-> NullSchemaObject,
                 scans |-> 1]

\* ------------------------------------------------------------ the machine

NoTuple == <<>>

\* No string function is being called.
NoCall == [fn |-> "none"]

\* A thread that is not inside GetInstance.
IdleCaller == [pc |-> "idle", txn |-> nullptr]

\* The catalogs as the bootstrap leaves them: constructed under the
\* bootstrap's transaction, with empty tables.
Init ==
  /\ pg_trigger = <<>>
  /\ oid_ = 0
  /\ trigger_indexes = TriggerCatalogIndexes
  /\ trigger_list = [t \in TableNames |-> <<>>]
  /\ pg_namespace = <<>>
  /\ schema_indexes = SchemaCatalogIndexes
  /\ ndebug \in BOOLEAN
  /\ aborted = FALSE
  /\ pc = [th \in Threads |-> "idle"]
  /\ tuple = [th \in Threads |-> NoTuple]
  /\ ret = [op |-> "none", args |-> <<>>, status |-> "return",
            value |-> FALSE, scans |-> 0]
  /\ live = {}
  /\ dropped_oids = {}
  /\ live_schemas = {}
  /\ trigger_catalog = [guard |-> "initialized", txn |-> "txn",
                        constructions |-> 1]
  /\ caller = [th \in Callers |-> IdleCaller]
  /\ first_call = "txn"
  /\ string_call = NoCall

\* What the history keeps of an inserted trigger: the call's arguments and
\* the OID allocated for it.
LiveOf(oid, table_oid, d) ==
  [oid |-> oid, table_oid |-> table_oid, trigger_name |-> d.name,
   trigger_type |-> d.type, proc_oid |-> d.proc,
   function_arguments |-> d.args, fire_condition |-> d.cond]

\* The same, read back from a tuple a thread has assembled.
LiveOfTuple(row) ==
  [oid |-> row[TRIGGER_OID], table_oid |-> row[TABLE_OID],
   trigger_name |-> row[TRIGGER_NAME], trigger_type |-> row[TRIGGER_TYPE],
   proc_oid |-> row[FUNCTION_OID], function_arguments |-> row[FUNCTION_ARGS],
   fire_condition |-> row[FIRE_CONDITION]]

\* What the history keeps of a successful DropTrigger: the key, and the
\* trigger_oid that GetTriggerOid returned to it before the deletion.
DroppedOf(table_name, trigger_name, table, no_debug) ==
  [table_oid |-> GetTableOid(table_name), trigger_name |-> trigger_name,
   oid |-> GetTriggerOid(trigger_name, GetTableOid(table_name), "txn", table,
                         no_debug).value]

triggerVars ==
  <<pg_trigger, oid_, trigger_indexes, trigger_list, live, dropped_oids>>
schemaVars == <<pg_namespace, schema_indexes, live_schemas>>
instanceVars == <<trigger_catalog, caller, first_call>>
threadVars == <<pc, tuple, instanceVars, string_call>>
buildVars == <<ndebug, aborted>>

\* A call of InsertTrigger, run to its end.
InsertTriggerCall(T) ==
  /\ ~aborted
  /\ oid_ < MaxOid
  /\ \A th \in Threads : pc[th] = "idle"
  /\ \E table_oid \in TableOids, d \in TriggerDefs, txn \in T,
        storage_ok \in BOOLEAN :
    \E r \in {InsertTrigger(table_oid, d.name, d.type, d.proc, d.args, d.cond,
                            d.ts, txn, pg_trigger, trigger_indexes, oid_,
                            storage_ok)} :
       /\ pg_trigger' = r.table
       /\ oid_' = r.counter
       /\ ret' = [op |-> "InsertTrigger", args |-> <<txn>>,
                  status |-> r.status, value |-> r.value, scans |-> 0,
                  oid |-> r.oid, storage |-> storage_ok]
       /\ live' = IF r.value
                    THEN live \cup {LiveOf(r.oid, table_oid, d)}
                    ELSE live
       /\ UNCHANGED <<trigger_indexes, trigger_list, dropped_oids>>
       /\ UNCHANGED schemaVars
       /\ UNCHANGED threadVars
       /\ UNCHANGED buildVars

\* Faulty variant of DropTriggerCall: the owning table refreshes its list from
\* the catalog as it was before the deletion.
DropTriggerCall_RefreshBeforeDelete(T) ==
  \E table_name \in TableNames, trigger_name \in TriggerNames, txn \in T,
     storage_ok \in BOOLEAN :
    \E r \in {DropTrigger(table_name, trigger_name, txn, pg_trigger,
                          trigger_indexes, ndebug, storage_ok)} :
       /\ ~aborted
       /\ pg_trigger' = r.table
       /\ trigger_list' =
            IF r.refresh
              THEN UpdateTriggerListFromCatalog(trigger_list, table_name, txn,
                                                pg_trigger)
              ELSE trigger_list
       /\ aborted' = (r.status = "abort")
       /\ ret' = [op |-> "DropTrigger",
                  args |-> <<table_name, trigger_name, txn>>,
                  status |-> r.status, value |-> r.value, scans |-> r.scans,
                  refresh |-> r.refresh]
       /\ live' = IF r.status = "return" /\ r.value = "SUCCESS"
                    THEN {l \in live :
                            ~(l.trigger_name = trigger_name
                              /\ l.table_oid = GetTableOid(table_name))}
                    ELSE live
       /\ UNCHANGED <<oid_, trigger_indexes, ndebug>>
       /\ UNCHANGED schemaVars
       /\ UNCHANGED threadVars

\* A call of DropTrigger.  What becomes of the history of drops is for the
\* specification to say.
DropTriggerCall(T) ==
  \E table_name \in TableNames, trigger_name \in TriggerNames, txn \in T,
     storage_ok \in BOOLEAN :
    \E r \in {DropTrigger(table_name, trigger_name, txn, pg_trigger,
                          trigger_indexes, ndebug, storage_ok)} :
       /\ ~aborted
       /\ pg_trigger' = r.table
       /\ trigger_list' =
            IF r.refresh
              THEN UpdateTriggerListFromCatalog(trigger_list, table_name, txn,
                                                r.table)
              ELSE trigger_list
       /\ aborted' = (r.status = "abort")
       /\ ret' = [op |-> "DropTrigger",
                  args |-> <<table_name, trigger_name, txn>>,
                  status |-> r.status, value |-> r.value, scans |-> r.scans,
                  refresh |-> r.refresh]
       /\ live' = IF r.status = "return" /\ r.value = "SUCCESS"
                    THEN {l \in live :
                            ~(l.trigger_name = trigger_name
                              /\ l.table_oid = GetTableOid(table_name))}
                    ELSE live
       /\ UNCHANGED <<oid_, trigger_indexes, ndebug>>
       /\ UNCHANGED schemaVars
       /\ UNCHANGED threadVars

\* A call of GetTriggerOid.
GetTriggerOidCall(T) ==
  \E trigger_name \in TriggerNames, table_oid \in TableOids, txn \in T :
    \E r \in {GetTriggerOid(trigger_name, table_oid, txn, pg_trigger,
                            ndebug)} :
       /\ ~aborted
       /\ aborted' = (r.status = "abort")
       /\ ret' = [op |-> "GetTriggerOid",
                  args |-> <<trigger_name, table_oid, txn>>,
                  status |-> r.status, value |-> r.value, scans |-> r.scans]
       /\ UNCHANGED ndebug
       /\ UNCHANGED triggerVars
       /\ UNCHANGED schemaVars
       /\ UNCHANGED threadVars

\* A call of GetTriggersByType.
GetTriggersByTypeCall(T) ==
  \E table_oid \in TableOids, trigger_type \in TriggerTypes, txn \in T :
    \E r \in {GetTriggersByType(table_oid, trigger_type, txn, pg_trigger)} :
       /\ ~aborted
       /\ ret' = [op |-> "GetTriggersByType",
                  args |-> <<table_oid, trigger_type, txn>>,
                  status |-> r.status, value |-> r.value, scans |-> r.scans]
       /\ UNCHANGED triggerVars
       /\ UNCHANGED schemaVars
       /\ UNCHANGED threadVars
       /\ UNCHANGED buildVars

\* Faulty variant of GetTriggersCall: the triggers read are stored as the
\* table's cached list.
GetTriggersCall_CachesResult(T) ==
  \E table_oid \in TableOids, txn \in T :
    \E r \in {GetTriggers(table_oid, txn, pg_trigger)} :
       /\ ~aborted
       /\ ret' = [op |-> "GetTriggers", args |-> <<table_oid, txn>>,
                  status |-> r.status, value |-> r.value, scans |-> r.scans]
       /\ trigger_list' =
            [t \in TableNames |->
               IF GetTableOid(t) = table_oid THEN r.value
                                             ELSE trigger_list[t]]
       /\ UNCHANGED <<pg_trigger, oid_, trigger_indexes, live, dropped_oids>>
       /\ UNCHANGED schemaVars
       /\ UNCHANGED threadVars
       /\ UNCHANGED buildVars

\* A call of GetTriggers.
GetTriggersCall(T) ==
  \E table_oid \in TableOids, txn \in T :
    \E r \in {GetTriggers(table_oid, txn, pg_trigger)} :
       /\ ~aborted
       /\ ret' = [op |-> "GetTriggers", args |-> <<table_oid, txn>>,
                  status |-> r.status, value |-> r.value, scans |-> r.scans]
       /\ UNCHANGED triggerVars
       /\ UNCHANGED schemaVars
       /\ UNCHANGED threadVars
       /\ UNCHANGED buildVars

\* The trigger catalog under one caller.  The caller holds a transaction; the
\* null transaction is passed where the code tests for it.
Next ==
  \/ InsertTriggerCall(LiveTxns)
  \/ DropTriggerCall(Txns) /\ UNCHANGED dropped_oids
  \/ GetTriggerOidCall(LiveTxns)
  \/ GetTriggersByTypeCall(LiveTxns)
  \/ GetTriggersCall(LiveTxns)

Spec == Init /\ [][Next]_vars

\* ------------------------------------------- the history of drops

\* The history after the DropTrigger call that `call` records, made on the
\* given table: a successful drop adds its key and the OID it had found.
RecordDropped(call, table, no_debug) ==
  IF call.status = "return" /\ call.value = "SUCCESS"
    THEN dropped_oids \cup {DroppedOf(call.args[1], call.args[2], table,
                                     no_debug)}
    ELSE dropped_oids

\* Triggers created, looked up and dropped by one caller that holds a
\* transaction, with the history of the drops.
HistoryNext ==
  \/ InsertTriggerCall(LiveTxns)
  \/ /\ DropTriggerCall(LiveTxns)
     /\ dropped_oids' = RecordDropped(ret', pg_trigger, ndebug)
  \/ GetTriggerOidCall(LiveTxns)

HistorySpec == Init /\ [][HistoryNext]_vars

\* ------------------------------------------- concurrent InsertTrigger

\* InsertTrigger up to line 90, on one thread: the OID is taken from the
\* counter and the tuple is assembled; the insert has not happened yet.
InsertTriggerBegin(th) ==
  \E table_oid \in TableOids, d \in TriggerDefs :
    \E next_oid \in {GetNextOid(oid_)} :
       /\ ~aborted
       /\ pc[th] = "idle"
       /\ oid_ < MaxOid
       /\ oid_' = next_oid.next
       /\ tuple' = [tuple EXCEPT ![th] =
                      TriggerTuple(next_oid.value, table_oid, d.name, d.type,
                                   d.proc, d.args, d.cond, d.ts)]
       /\ pc' = [pc EXCEPT ![th] = "InsertTuple"]
       /\ UNCHANGED <<pg_trigger, trigger_indexes, trigger_list, live, ret>>
       /\ UNCHANGED dropped_oids
       /\ UNCHANGED <<instanceVars, string_call>>
       /\ UNCHANGED schemaVars
       /\ UNCHANGED buildVars

\* InsertTrigger, line 93, on one thread: the assembled tuple is inserted
\* under the thread's transaction, or the storage engine refuses it (a
\* rejected row, an aborted transaction).
InsertTriggerEnd(th) ==
  /\ ~aborted
  /\ pc[th] = "InsertTuple"
  /\ \E storage_ok \in BOOLEAN :
       \E r \in {InsertTuple(pg_trigger, trigger_indexes, tuple[th], "txn",
                             storage_ok)} :
          /\ pg_trigger' = r.table
          /\ ret' = [op |-> "InsertTrigger", args |-> <<"txn">>,
                     status |-> "return", value |-> r.ok, scans |-> 0,
                     oid |-> tuple[th][TRIGGER_OID], storage |-> storage_ok]
          /\ live' = IF r.ok THEN live \cup {LiveOfTuple(tuple[th])}
                             ELSE live
  /\ pc' = [pc EXCEPT ![th] = "idle"]
  /\ tuple' = [tuple EXCEPT ![th] = NoTuple]
  /\ UNCHANGED <<oid_, trigger_indexes, trigger_list, dropped_oids>>
  /\ UNCHANGED <<instanceVars, string_call>>
  /\ UNCHANGED schemaVars
  /\ UNCHANGED buildVars

\* Threads inside InsertTrigger, next to a thread that drops triggers.
ConcNext ==
  \/ \E th \in Threads : InsertTriggerBegin(th)
  \/ \E th \in Threads : InsertTriggerEnd(th)
  \/ DropTriggerCall(LiveTxns) /\ UNCHANGED dropped_oids

ConcSpec == Init /\ [][ConcNext]_vars

\* ------------------------------------------------ schema catalog calls

\* A call of InsertSchema.
InsertSchemaCall(T) ==
  \E schema_oid \in SchemaOids, schema_name \in SchemaNames, txn \in T,
     storage_ok \in BOOLEAN :
    \E r \in {InsertSchema(schema_oid, schema_name, txn, pg_namespace,
                           schema_indexes, storage_ok)} :
       /\ ~aborted
       /\ pg_namespace' = r.table
       /\ ret' = [op |-> "InsertSchema",
                  args |-> <<schema_oid, schema_name, txn>>,
                  status |-> r.status, value |-> r.value, scans |-> 0,
                  storage |-> storage_ok]
       /\ live_schemas' =
            IF r.value
              THEN live_schemas
                     \cup {[schema_oid |-> schema_oid,
                            schema_name |-> schema_name]}
              ELSE live_schemas
       /\ UNCHANGED schema_indexes
       /\ UNCHANGED triggerVars
       /\ UNCHANGED threadVars
       /\ UNCHANGED buildVars

\* A call of DeleteSchema.
DeleteSchemaCall(T) ==
  \E schema_name \in SchemaNames, txn \in T, storage_ok \in BOOLEAN :
    \E r \in {DeleteSchema(schema_name, txn, pg_namespace, storage_ok)} :
       /\ ~aborted
       /\ pg_namespace' = r.table
       /\ ret' = [op |-> "DeleteSchema", args |-> <<schema_name, txn>>,
                  status |-> r.status, value |-> r.value, scans |-> 0]
       /\ live_schemas' = {s \in live_schemas : s.schema_name # schema_name}
       /\ UNCHANGED schema_indexes
       /\ UNCHANGED triggerVars
       /\ UNCHANGED threadVars
       /\ UNCHANGED buildVars

\* A call of GetSchemaObject.
GetSchemaObjectCall(T) ==
  \E schema_name \in SchemaNames, txn \in T :
    \E r \in {GetSchemaObject(schema_name, txn, pg_namespace)} :
       /\ ~aborted
       /\ ret' = [op |-> "GetSchemaObject", args |-> <<schema_name, txn>>,
                  status |-> r.status, value |-> r.value, scans |-> r.scans]
       /\ UNCHANGED schemaVars
       /\ UNCHANGED triggerVars
       /\ UNCHANGED threadVars
       /\ UNCHANGED buildVars

\* The schema catalog under one caller.
SchemaNext ==
  \/ InsertSchemaCall(LiveTxns)
  \/ DeleteSchemaCall(LiveTxns)
  \/ GetSchemaObjectCall(Txns)

SchemaSpec == Init /\ [][SchemaNext]_vars

\* ------------------------------------------------------- both catalogs

\* No trigger OID has been handed out yet.
TriggerCatalogUntouched == pg_trigger = <<>> /\ oid_ = 0

\* pg_namespace holds no row.
SchemaCatalogUntouched == pg_namespace = <<>>

\* Both catalogs under one caller that passes a transaction or none to every
\* operation.  The catalogs share no state; the caller writes to one of them
\* while the other is still empty, and reads both at any time.  It stops
\* calling InsertTrigger after MaxCatalogRows calls, and once pg_namespace
\* holds MaxCatalogRows rows it only attempts inserts the storage engine
\* turns down.
CatalogNext ==
  \/ /\ SchemaCatalogUntouched
     /\ oid_ < MaxCatalogRows
     /\ InsertTriggerCall(Txns)
  \/ /\ SchemaCatalogUntouched
     /\ DropTriggerCall(Txns)
     /\ UNCHANGED dropped_oids
  \/ GetTriggerOidCall(Txns)
  \/ GetTriggersByTypeCall(Txns)
  \/ GetTriggersCall(Txns)
  \/ /\ TriggerCatalogUntouched
     /\ InsertSchemaCall(Txns)
     /\ Len(pg_namespace') <= MaxCatalogRows
  \/ TriggerCatalogUntouched /\ DeleteSchemaCall(Txns)
  \/ GetSchemaObjectCall(Txns)

CatalogSpec == Init /\ [][CatalogNext]_vars

\* ------------------------------------------------------------- properties

Range(seq) == {seq[i] : i \in DOMAIN seq}

\* A sequence as a bag: each element with the number of its occurrences.
BagOfSeq(seq) ==
  [x \in Range(seq) |-> Cardinality({i \in DOMAIN seq : seq[i] = x})]

\* The images of a set of history entries as a bag.
BagOfLive(S, F(_)) ==
  [x \in {F(l) : l \in S} |-> Cardinality({l \in S : F(l) = x})]

\* The Trigger a history entry should be read back as.
TriggerOfLive(l) ==
  [trigger_name |-> l.trigger_name, trigger_type |-> l.trigger_type,
   trigger_funcname |-> l.proc_oid, trigger_args |-> l.function_arguments,
   fire_condition |-> l.fire_condition]

NameAndCondition(l) == <<l.trigger_name, l.fire_condition>>

LiveOn(table_oid) == {l \in live : l.table_oid = table_oid}

LiveKey(trigger_name, table_oid) ==
  {l \in live : l.trigger_name = trigger_name /\ l.table_oid = table_oid}

\* C1: GetTriggerOid(name, table_oid) returns the OID allocated at insertion
\* for every trigger inserted and not dropped since, and returns INVALID_OID,
\* without raising, for every pair that has no such trigger.
C1_GetTriggerOidReturnsInsertedOid ==
  ret.op = "GetTriggerOid" =>
    /\ ret.status = "return"
    /\ \A l \in LiveKey(ret.args[1], ret.args[2]) : ret.value = l.oid
    /\ LiveKey(ret.args[1], ret.args[2]) = {} => ret.value = INVALID_OID

\* C2: GetTriggersByType(table_oid, type) returns exactly the triggers present
\* that were inserted with that table_oid and that type, one entry per row,
\* whatever the order of insertion.
C2_GetTriggersByTypeExact ==
  (ret.op = "GetTriggersByType" /\ ret.status = "return") =>
    BagOfSeq(ret.value)
      = BagOfLive({l \in LiveOn(ret.args[1]) : l.trigger_type = ret.args[2]},
                  TriggerOfLive)

\* A call that returned one trigger of a table holding two.
C2_Witness ==
  /\ ret.op = "GetTriggersByType"
  /\ Len(ret.value) = 1
  /\ Cardinality(LiveOn(ret.args[1])) = 2

\* The key has no row: GetTriggerOid answers INVALID_OID and GetTriggers of
\* the table names no such trigger.
Absent(trigger_name, table_oid, table, no_debug) ==
  /\ GetTriggerOid(trigger_name, table_oid, "txn", table, no_debug)
       = [status |-> "return", value |-> INVALID_OID, scans |-> 1]
  /\ \A t \in Range(GetTriggers(table_oid, "txn", table).value) :
       t.trigger_name # trigger_name

\* C3: once DropTrigger has returned SUCCESS for (table, name), GetTriggerOid
\* returns INVALID_OID and GetTriggers holds no trigger of that name, in the
\* state the drop leaves and in every later state up to the next successful
\* InsertTrigger of the same (table_oid, name).  (A step that leaves the
\* rows as they are and is no successful drop keeps what is absent absent.)
C3_DroppedStaysAbsent ==
  [][\A table_name \in TableNames, trigger_name \in TriggerNames :
       LET table_oid == GetTableOid(table_name)
           dropped == /\ ret'.op = "DropTrigger"
                      /\ ret'.args[1] = table_name
                      /\ ret'.args[2] = trigger_name
                      /\ ret'.status = "return"
                      /\ ret'.value = "SUCCESS"
           inserted == /\ ret'.op = "InsertTrigger"
                       /\ ret'.value
                       /\ LET row == pg_trigger'[Len(pg_trigger')]
                          IN /\ row[TRIGGER_NAME] = trigger_name
                             /\ row[TABLE_OID] = table_oid
       IN \/ pg_trigger' = pg_trigger /\ ~dropped
          \/ (dropped
                \/ (~inserted
                      /\ Absent(trigger_name, table_oid, pg_trigger, ndebug)))
               => Absent(trigger_name, table_oid, pg_trigger', ndebug)]_vars

\* A successful drop that left another trigger in the catalog.
C3_Witness ==
  /\ ret.op = "DropTrigger"
  /\ ret.status = "return"
  /\ ret.value = "SUCCESS"
  /\ Len(pg_trigger) >= 1
  /\ Absent(ret.args[2], GetTableOid(ret.args[1]), pg_trigger, ndebug)

\* C4: DropTrigger with a null transaction, or for a (name, table) that has no
\* row, returns FAILURE and leaves the rows as they were.
C4_DropFailureLeavesRows ==
  [][(/\ ret'.op = "DropTrigger"
      /\ \/ ret'.args[3] = nullptr
         \/ \A i \in DOMAIN pg_trigger :
              ~(/\ pg_trigger[i][TRIGGER_NAME] = ret'.args[2]
                /\ pg_trigger[i][TABLE_OID] = GetTableOid(ret'.args[1])))
       => /\ ret'.status = "return"
          /\ ret'.value = "FAILURE"
          /\ pg_trigger' = pg_trigger]_vars

\* A drop of "t1" on table A that failed after an earlier drop on A had
\* succeeded: the table's list was refreshed and still holds a trigger.
C4_Witness ==
  /\ ret.op = "DropTrigger"
  /\ ret.args = <<"A", "t1", "txn">>
  /\ ret.value = "FAILURE"
  /\ trigger_list["A"] # <<>>
  /\ \A i \in DOMAIN pg_trigger : pg_trigger[i][TRIGGER_NAME] # "t1"

InFlight == {th \in Threads : pc[th] = "InsertTuple"}

\* C5: the OIDs that InsertTrigger calls have obtained, on any interleaving,
\* are pairwise distinct: those of the tuples still to be inserted and those
\* of the rows.
C5_DistinctOids ==
  /\ \A a, b \in InFlight :
       a # b => tuple[a][TRIGGER_OID] # tuple[b][TRIGGER_OID]
  /\ \A a \in InFlight : \A i \in DOMAIN pg_trigger :
       pg_trigger[i][TRIGGER_OID] # tuple[a][TRIGGER_OID]
  /\ \A i, j \in DOMAIN pg_trigger :
       i # j => pg_trigger[i][TRIGGER_OID] # pg_trigger[j][TRIGGER_OID]

\* Two threads hold an assembled tuple for the same table at once.
C5_Witness ==
  /\ InFlight = Threads
  /\ tuple[1][TABLE_OID] = tuple[2][TABLE_OID]

\* C6: at most one row exists for any (table_oid, trigger_name), so the
\* assertion of GetTriggerOid never fails.
C6_KeyIdentifiesOneRow ==
  /\ \A i, j \in DOMAIN pg_trigger :
       (/\ pg_trigger[i][TRIGGER_NAME] = pg_trigger[j][TRIGGER_NAME]
        /\ pg_trigger[i][TABLE_OID] = pg_trigger[j][TABLE_OID]) => i = j
  /\ ~aborted

\* C7: the (name, fire condition) pairs of the triggers GetTriggers and
\* GetTriggersByType return are those of the rows as inserted: the bytes are
\* the stored ones and stay with their row's name.
C7_FireConditionUnchanged ==
  /\ (ret.op = "GetTriggers" /\ ret.status = "return") =>
       BagOfSeq([i \in DOMAIN ret.value |->
                  <<ret.value[i].trigger_name, ret.value[i].fire_condition>>])
         = BagOfLive(LiveOn(ret.args[1]), NameAndCondition)
  /\ (ret.op = "GetTriggersByType" /\ ret.status = "return") =>
       BagOfSeq([i \in DOMAIN ret.value |->
                  <<ret.value[i].trigger_name, ret.value[i].fire_condition>>])
         = BagOfLive({l \in LiveOn(ret.args[1]) :
                        l.trigger_type = ret.args[2]}, NameAndCondition)

\* Two triggers of one type returned, with different names and conditions.
C7_Witness ==
  /\ ret.op = "GetTriggersByType"
  /\ Len(ret.value) = 2
  /\ ret.value[1].trigger_name # ret.value[2].trigger_name
  /\ ret.value[1].fire_condition # ret.value[2].fire_condition

\* C8: GetSchemaObject with a null transaction ends by throwing, runs no scan
\* and leaves pg_namespace unchanged.
C8_NullTxnThrows ==
  [][(ret'.op = "GetSchemaObject" /\ ret'.args[2] = nullptr)
       => /\ ret'.status = "throw"
          /\ ret'.scans = 0
          /\ pg_namespace' = pg_namespace]_vars

\* A null-transaction lookup of a name that has a row.
C8_Witness ==
  /\ ret.op = "GetSchemaObject"
  /\ ret.args[2] = nullptr
  /\ ret.status = "throw"
  /\ \E i \in DOMAIN pg_namespace :
       pg_namespace[i][SCHEMA_NAME] = ret.args[1]

\* C9: with a transaction, GetSchemaObject(name) returns the object (oid,
\* name) of every schema inserted with no DeleteSchema(name) since, and the
\* null object for a name that has no row, on the table as it is now.
C9_GetSchemaObjectReturnsInserted ==
  (ret.op = "GetSchemaObject" /\ ret.args[2] # nullptr) =>
    /\ ret.status = "return"
    /\ \A s \in live_schemas :
         s.schema_name = ret.args[1] =>
           ret.value = [ptr |-> "object", schema_oid |-> s.schema_oid,
                        schema_name |-> s.schema_name, txn |-> ret.args[2]]
    /\ (\A i \in DOMAIN pg_namespace :
          pg_namespace[i][SCHEMA_NAME] # ret.args[1])
         => ret.value = NullSchemaObject

\* An object returned from a table that holds another schema as well.
C9_Witness ==
  /\ ret.op = "GetSchemaObject"
  /\ ret.value.ptr = "object"
  /\ Len(pg_namespace) >= 2

\* C10: GetTriggers(table_oid) returns one entry per trigger present on that
\* table, of whatever type and with the type stored, and nothing else.
C10_GetTriggersExact ==
  (ret.op = "GetTriggers" /\ ret.status = "return") =>
    BagOfSeq(ret.value) = BagOfLive(LiveOn(ret.args[1]), TriggerOfLive)

\* Two triggers of different types returned for one table.
C10_Witness ==
  /\ ret.op = "GetTriggers"
  /\ Len(ret.value) = 2
  /\ ret.value[1].trigger_type # ret.value[2].trigger_type

\* The transaction argument of the last call: the last argument of every
\* operation.
TxnOf(call) == call.args[Len(call.args)]

\* C11: every catalog operation called with a null transaction ends in a
\* caller error, a throw or (DropTrigger) the value FAILURE, without having
\* run a scan, and leaves the rows of pg_trigger and pg_namespace unchanged.
C11_NullTxnIsCallerError ==
  [][(ret'.op # "none" /\ TxnOf(ret') = nullptr)
       => /\ \/ ret'.status = "throw"
             \/ (ret'.op = "DropTrigger" /\ ret'.status = "return"
                   /\ ret'.value = "FAILURE")
          /\ ret'.scans = 0
          /\ pg_trigger' = pg_trigger
          /\ pg_namespace' = pg_namespace]_vars

\* DeleteSchema without a transaction, for a name that has a row.
C11_Witness ==
  /\ ret.op = "DeleteSchema"
  /\ TxnOf(ret) = nullptr
  /\ ret.status = "throw"
  /\ \E i \in DOMAIN pg_namespace :
       pg_namespace[i][SCHEMA_NAME] = ret.args[1]

\* C12: the OIDs handed out to successive InsertTrigger calls increase
\* strictly and none is handed out twice.  Every OID in a row lies below the
\* counter, the counter never goes back, and each call is given an OID at or
\* above the counter it found and below the counter it leaves: above every
\* OID handed out before, whether its row is still there, was dropped, or
\* was never inserted.
C12_OidsIncreaseNeverReused ==
  [][/\ oid_' >= oid_
     /\ \A i \in DOMAIN pg_trigger' : pg_trigger'[i][TRIGGER_OID] < oid_'
     /\ ret'.op = "InsertTrigger"
          => (ret'.oid >= oid_ /\ ret'.oid < oid_')]_vars

\* An insert that was given OID 1 when no row holds OID 0 any more: the row
\* was dropped, or the insert that took OID 0 failed.
C12_Witness ==
  /\ ret.op = "InsertTrigger"
  /\ ret.value
  /\ ret.oid = 1
  /\ Len(pg_trigger) = 1
  /\ pg_trigger[1][TRIGGER_OID] = 1

\* The key has a row.
Present(trigger_name, table_oid, table) ==
  \E i \in DOMAIN table : /\ table[i][TRIGGER_NAME] = trigger_name
                           /\ table[i][TABLE_OID] = table_oid

\* The last call was a successful InsertTrigger of this key.
InsertedKey(call, trigger_name, table_oid, table) ==
  /\ call.op = "InsertTrigger"
  /\ call.status = "return"
  /\ call.value
  /\ table[Len(table)][TRIGGER_NAME] = trigger_name
  /\ table[Len(table)][TABLE_OID] = table_oid
  /\ table[Len(table)][TRIGGER_OID] = call.oid

\* The last call was a successful DropTrigger of this key.
DroppedKey(call, trigger_name, table_oid) ==
  /\ call.op = "DropTrigger"
  /\ call.status = "return"
  /\ call.value = "SUCCESS"
  /\ call.args[2] = trigger_name
  /\ GetTableOid(call.args[1]) = table_oid

\* C13: a key (table_oid, name) gets its first row only by a successful
\* InsertTrigger of that key and loses its rows only by a successful
\* DropTrigger of that key; no step changes a row that stays; and once a
\* DropTrigger has succeeded, GetTriggerOid never again returns for that key
\* the OID it returned to that drop, a later insert of the key included.
C13_DropThenInsertChangesOid ==
  [][/\ \A trigger_name \in TriggerNames, table_oid \in TableOids :
          LET was == Present(trigger_name, table_oid, pg_trigger)
              is == Present(trigger_name, table_oid, pg_trigger')
          IN /\ (~was /\ is)
                  => InsertedKey(ret', trigger_name, table_oid, pg_trigger')
             /\ (was /\ ~is) => DroppedKey(ret', trigger_name, table_oid)
     /\ \A i \in DOMAIN pg_trigger, j \in DOMAIN pg_trigger' :
          pg_trigger[i][TRIGGER_OID] = pg_trigger'[j][TRIGGER_OID]
            => pg_trigger[i] = pg_trigger'[j]
     /\ \A d \in dropped_oids' :
          GetTriggerOid(d.trigger_name, d.table_oid, "txn", pg_trigger',
                        ndebug).value # d.oid]_vars

\* A key that was dropped has a row again, and GetTriggerOid finds it.
C13_Witness ==
  \E d \in dropped_oids :
    /\ Present(d.trigger_name, d.table_oid, pg_trigger)
    /\ GetTriggerOid(d.trigger_name, d.table_oid, "txn", pg_trigger,
                     ndebug).value \notin {INVALID_OID, d.oid}

\* C14: DropTrigger asks the owning table to refresh its trigger list exactly
\* when it returns SUCCESS.  On SUCCESS the table's list afterwards is the
\* catalog's triggers of that table as the deletion left them, without the
\* dropped name; on every other path no refresh is asked for and no list
\* changes.
C14_RefreshExactlyOnSuccess ==
  [][ret'.op = "DropTrigger" =>
       LET table_name == ret'.args[1]
           success == ret'.status = "return" /\ ret'.value = "SUCCESS"
       IN /\ ret'.refresh <=> success
          /\ success =>
               /\ trigger_list'[table_name]
                    = GetTriggers(GetTableOid(table_name), "txn",
                                  pg_trigger').value
               /\ \A t \in Range(trigger_list'[table_name]) :
                    t.trigger_name # ret'.args[2]
               /\ \A other \in TableNames \ {table_name} :
                    trigger_list'[other] = trigger_list[other]
          /\ ~success => trigger_list' = trigger_list]_vars

\* A successful drop on a table that keeps another trigger: the refreshed
\* list holds it.
C14_Witness ==
  /\ ret.op = "DropTrigger"
  /\ ret.status = "return"
  /\ ret.value = "SUCCESS"
  /\ ret.refresh
  /\ Len(trigger_list[ret.args[1]]) = 1

\* C15: a successful DropTrigger(table, name) leaves no row with that
\* (trigger_name, table_oid), and every other row exactly as it was: no
\* column of it changed, none removed, none added.
C15_DropRemovesKeyOnly ==
  [][(/\ ret'.op = "DropTrigger"
      /\ ret'.status = "return"
      /\ ret'.value = "SUCCESS")
       => LET trigger_name == ret'.args[2]
              table_oid == GetTableOid(ret'.args[1])
          IN /\ ~Present(trigger_name, table_oid, pg_trigger')
             /\ Range(pg_trigger')
                  = {row \in Range(pg_trigger) :
                       ~(/\ row[TRIGGER_NAME] = trigger_name
                         /\ row[TABLE_OID] = table_oid)}
             /\ Len(pg_trigger') = Cardinality(Range(pg_trigger'))
             /\ Len(pg_trigger') < Len(pg_trigger)]_vars

\* A successful drop that left the trigger of the same name on the other
\* table.
C15_Witness ==
  /\ ret.op = "DropTrigger"
  /\ ret.status = "return"
  /\ ret.value = "SUCCESS"
  /\ \E i \in DOMAIN pg_trigger :
       /\ pg_trigger[i][TRIGGER_NAME] = ret.args[2]
       /\ pg_trigger[i][TABLE_OID] # GetTableOid(ret.args[1])

\* C16: a DeleteSchema(name) that succeeds leaves no row of that name and
\* every row of another name as it was; GetSchemaObject(name) then returns
\* the null object, and GetSchemaObject of every other name that has a row
\* returns the object it returned before.
C16_DeleteSchemaRemovesNameOnly ==
  [][(/\ ret'.op = "DeleteSchema"
      /\ ret'.status = "return"
      /\ ret'.value)
       => LET schema_name == ret'.args[1]
          IN /\ pg_namespace'
                  = SelectSeq(pg_namespace,
                              LAMBDA row : row[SCHEMA_NAME] # schema_name)
             /\ GetSchemaObject(schema_name, "txn", pg_namespace')
                  = [status |-> "return", value |-> NullSchemaObject,
                     scans |-> 1]
             /\ \A i \in DOMAIN pg_namespace :
                  LET other == pg_namespace[i][SCHEMA_NAME]
                  IN other # schema_name
                       => /\ GetSchemaObject(other, "txn", pg_namespace')
                               = GetSchemaObject(other, "txn", pg_namespace)
                          /\ GetSchemaObject(other, "txn", pg_namespace')
                               .value
                               = [ptr |-> "object",
                                  schema_oid |-> pg_namespace[i][SCHEMA_OID],
                                  schema_name |-> other, txn |-> "txn"]]_vars

\* A DeleteSchema that succeeded on a table which keeps two schemas of other
\* names.
C16_Witness ==
  /\ ret.op = "DeleteSchema"
  /\ ret.status = "return"
  /\ ret.value
  /\ Len(pg_namespace) = 2
  /\ Cardinality(live_schemas) = 2
  /\ \A i \in DOMAIN pg_namespace :
       pg_namespace[i][SCHEMA_NAME] # ret.args[1]

\* A row of the table repeats the key of a primary-key or unique index.
RepeatsKey(table, indexes, row) ==
  \E k \in DOMAIN indexes, i \in DOMAIN table :
    /\ indexes[k].unique
    /\ IndexKey(indexes[k], table[i]) = IndexKey(indexes[k], row)

C18_IndexSetFixed ==
  /\ Len(trigger_indexes) = 4
  /\ trigger_indexes[1].cols = <<TRIGGER_OID>>
  /\ [k \in 1..3 |-> trigger_indexes[k + 1].cols]
       = << <<TABLE_OID, TRIGGER_TYPE>>, <<TABLE_OID>>,
            <<TRIGGER_NAME, TABLE_OID>> >>
  /\ \A k \in 2..4 : ~trigger_indexes[k].unique
  /\ Len(schema_indexes) = 2
  /\ schema_indexes[1].name = "pg_namespace_pkey"
  /\ schema_indexes[1].cols = <<SCHEMA_OID>>
  /\ schema_indexes[2].cols = <<SCHEMA_NAME>>
  /\ \A k \in 1..2 : schema_indexes[k].unique

\* A trigger was inserted and dropped again.
C18_Witness ==
  /\ ret.op = "DropTrigger"
  /\ ret.status = "return"
  /\ ret.value = "SUCCESS"
  /\ pg_trigger = <<>>
  /\ oid_ > 0

\* The outcome of the read that `call` records, made on the given tables.
ReadAgain(call, triggers, namespace, no_debug) ==
  CASE call.op = "GetTriggerOid" ->
         GetTriggerOid(call.args[1], call.args[2], call.args[3], triggers,
                       no_debug)
    [] call.op = "GetTriggersByType" ->
         GetTriggersByType(call.args[1], call.args[2], call.args[3], triggers)
    [] call.op = "GetTriggers" ->
         GetTriggers(call.args[1], call.args[2], triggers)
    [] call.op = "GetSchemaObject" ->
         GetSchemaObject(call.args[1], call.args[2], namespace)

\* C19: GetTriggerOid, GetTriggersByType, GetTriggers and, with a
\* transaction, GetSchemaObject leave the rows of both catalog tables, the
\* OID counter, the indexes and the cached trigger lists as they were, and
\* the same read made again in the state the call leaves has the same
\* outcome.
C19_ReadsChangeNothing ==
  [][(/\ ret'.op \in {"GetTriggerOid", "GetTriggersByType", "GetTriggers",
                      "GetSchemaObject"}
      /\ TxnOf(ret') # nullptr)
       => /\ pg_trigger' = pg_trigger
          /\ pg_namespace' = pg_namespace
          /\ oid_' = oid_
          /\ trigger_list' = trigger_list
          /\ trigger_indexes' = trigger_indexes
          /\ schema_indexes' = schema_indexes
          /\ LET again == ReadAgain(ret', pg_trigger', pg_namespace', ndebug)
             IN /\ again.status = ret'.status
                /\ again.value = ret'.value
          /\ (ret.op = ret'.op /\ ret.args = ret'.args) => ret' = ret]_vars

\* GetTriggers returned the trigger of a table that has one.
C19_Witness ==
  /\ ret.op = "GetTriggers"
  /\ TxnOf(ret) # nullptr
  /\ Len(ret.value) = 1
  /\ Len(pg_trigger) = 1
  /\ trigger_list = [t \in TableNames |-> <<>>]

\* The trigger types a caller may ask for: those in use and their neighbours.
AskedTypes == 0..3

\* C20: in every state, for every table and type, GetTriggersByType returns
\* exactly the entries of GetTriggers of that table whose type is equal to
\* the type asked for, each entry with the same name, type, function,
\* arguments and fire condition, and as many times.
C20_ByTypeIsGetTriggersFiltered ==
  \A table_oid \in TableOids, trigger_type \in AskedTypes :
    LET by_type == GetTriggersByType(table_oid, trigger_type, "txn",
                                     pg_trigger)
        all == GetTriggers(table_oid, "txn", pg_trigger)
    IN /\ by_type.status = "return"
       /\ all.status = "return"
       /\ BagOfSeq(by_type.value)
            = BagOfSeq(SelectSeq(all.value,
                         LAMBDA t : t.trigger_type = trigger_type))

\* GetTriggersByType returned one of the two triggers of a table, the other
\* being of a type that shares a bit with the type asked for.
C20_Witness ==
  /\ ret.op = "GetTriggersByType"
  /\ ret.status = "return"
  /\ Len(ret.value) = 1
  /\ LET all == GetTriggers(ret.args[1], "txn", pg_trigger).value
     IN /\ Len(all) = 2
        /\ {all[1].trigger_type, all[2].trigger_type} = {1, 3}

\* ------------------------------------------------------- GetInstance

\* TriggerCatalog::GetInstance: `static TriggerCatalog trigger_catalog{txn};
\* return trigger_catalog;`.  What a call does is decided by the
\* initialization guard of the function-local static: the first call to pass
\* the declaration runs the constructor, a call that arrives while the
\* constructor runs waits for it to complete, and a call that finds the
\* static initialized goes on to the return statement.

\* Faulty variant of GetInstance: a lazy singleton behind an unsynchronized
\* "not yet built" test, which a second caller passes while the first one
\* is still constructing.
GetInstance_NoGuard(static) ==
  IF static.guard = "initialized" THEN "return" ELSE "construct"

GetInstance(static) ==
  IF static.guard = "uninitialized" THEN "construct"
  ELSE IF static.guard = "initializing" THEN "wait"
  ELSE "return"

\* The process before anybody has called GetInstance: no instance, no
\* backing table, no index.
InstanceInit ==
  /\ pg_trigger = <<>>
  /\ oid_ = 0
  /\ trigger_indexes = <<>>
  /\ trigger_list = [t \in TableNames |-> <<>>]
  /\ pg_namespace = <<>>
  /\ schema_indexes = SchemaCatalogIndexes
  /\ ndebug \in BOOLEAN
  /\ aborted = FALSE
  /\ pc = [th \in Threads |-> "idle"]
  /\ tuple = [th \in Threads |-> NoTuple]
  /\ ret = [op |-> "none", args |-> <<>>, status |-> "return",
            value |-> FALSE, scans |-> 0]
  /\ live = {}
  /\ dropped_oids = {}
  /\ live_schemas = {}
  /\ trigger_catalog = [guard |-> "uninitialized", txn |-> nullptr,
                        constructions |-> 0]
  /\ caller = [th \in Callers |-> IdleCaller]
  /\ first_call = "none"
  /\ string_call = NoCall

\* What a GetInstance step leaves alone.
instanceFrame == <<pg_trigger, oid_, trigger_list, live, dropped_oids,
                   schemaVars, buildVars, pc, tuple, ret, string_call>>

\* A thread calls GetInstance(txn) and reaches the declaration of the static.
\* Constructing starts with the base-class constructor, which creates the
\* backing table and its primary-key index from the CREATE TABLE string.
GetInstanceCall(th, txn) ==
  /\ caller[th].pc = "idle"
  /\ first_call' = IF first_call = "none" THEN txn ELSE first_call
  /\ \E todo \in {GetInstance(trigger_catalog)} :
       IF todo = "construct"
       THEN /\ trigger_catalog' =
                 [guard |-> "initializing", txn |-> txn,
                  constructions |-> trigger_catalog.constructions + 1]
            /\ trigger_indexes' = <<TriggerCatalogIndexes[1]>>
            /\ caller' = [caller EXCEPT ![th] = [pc |-> "skey0", txn |-> txn]]
       ELSE IF todo = "wait"
       THEN /\ caller' = [caller EXCEPT ![th] = [pc |-> "wait", txn |-> txn]]
            /\ UNCHANGED <<trigger_catalog, trigger_indexes>>
       ELSE /\ caller' = [caller EXCEPT ![th] = [pc |-> "return", txn |-> txn]]
            /\ UNCHANGED <<trigger_catalog, trigger_indexes>>
  /\ UNCHANGED instanceFrame

\* The position after the CreateIndex call at `at`; after the last one the
\* constructor is complete.
AfterCreateIndex(at) ==
  IF at = "skey0" THEN "skey1" ELSE IF at = "skey1" THEN "skey2" ELSE "return"

\* The index the CreateIndex call at `at` creates.
CreateIndexOf(at) ==
  IF at = "skey0" THEN TriggerCatalogIndexes[2]
  ELSE IF at = "skey1" THEN TriggerCatalogIndexes[3]
  ELSE TriggerCatalogIndexes[4]

\* The constructing thread makes its next Catalog::CreateIndex call; when
\* the constructor body ends, the static is marked initialized.
CreateIndex(th) ==
  /\ caller[th].pc \in {"skey0", "skey1", "skey2"}
  /\ trigger_indexes' = Append(trigger_indexes, CreateIndexOf(caller[th].pc))
  /\ caller' = [caller EXCEPT ![th].pc = AfterCreateIndex(caller[th].pc)]
  /\ trigger_catalog' =
       IF AfterCreateIndex(caller[th].pc) = "return"
       THEN [trigger_catalog EXCEPT !.guard = "initialized"]
       ELSE trigger_catalog
  /\ UNCHANGED first_call
  /\ UNCHANGED instanceFrame

\* A thread that waited for the constructor goes on once it is complete.
GetInstanceResume(th) ==
  /\ caller[th].pc = "wait"
  /\ trigger_catalog.guard = "initialized"
  /\ caller' = [caller EXCEPT ![th].pc = "return"]
  /\ UNCHANGED <<trigger_catalog, trigger_indexes, first_call>>
  /\ UNCHANGED instanceFrame

\* `return trigger_catalog;`: the caller has the reference and leaves.
GetInstanceReturn(th) ==
  /\ caller[th].pc = "return"
  /\ caller' = [caller EXCEPT ![th] = IdleCaller]
  /\ UNCHANGED <<trigger_catalog, trigger_indexes, first_call>>
  /\ UNCHANGED instanceFrame

\* DropTrigger's `TriggerCatalog::GetInstance()`: the call without an
\* argument, whose txn is the null default.  DropTrigger is a member
\* function, so it runs on an instance an earlier call has returned.
DropTriggerGetInstance(th) ==
  /\ trigger_catalog.guard = "initialized"
  /\ GetInstanceCall(th, nullptr)

InstanceNext ==
  \/ \E th \in Callers, txn \in CallerTxns : GetInstanceCall(th, txn)
  \/ \E th \in Callers : CreateIndex(th)
  \/ \E th \in Callers : GetInstanceResume(th)
  \/ \E th \in Callers : GetInstanceReturn(th)
  \/ \E th \in Callers : DropTriggerGetInstance(th)

InstanceSpec == InstanceInit /\ [][InstanceNext]_vars

\* The threads that are at the return statement of GetInstance.
AtReturn == {th \in Callers : caller[th].pc = "return"}

\* The threads that are inside the constructor.
Constructing == {th \in Callers : caller[th].pc \in {"skey0", "skey1", "skey2"}}

\* C21: the constructor of the trigger catalog is entered at most once, by
\* the first call of GetInstance and with that call's transaction; only the
\* constructing thread creates indexes; every call that reaches the return
\* statement finds the one instance completely constructed with the primary
\* key and the three secondary indexes; and a call that is not the first
\* one, whatever transaction it passes, changes neither the instance nor
\* the indexes.
C21_ConstructedOnceByFirstCall ==
  [][ /\ trigger_catalog'.constructions <= 1
      /\ trigger_catalog'.constructions = 1
           => /\ trigger_catalog'.txn = first_call'
              /\ first_call' \in CallerTxns
      /\ trigger_indexes' # trigger_indexes
           => /\ Cardinality(Constructing \cup Constructing') = 1
              /\ Len(trigger_indexes') <= Len(TriggerCatalogIndexes)
      /\ AtReturn' # {}
           => /\ trigger_catalog'.guard = "initialized"
              /\ trigger_catalog'.constructions = 1
              /\ trigger_indexes' = TriggerCatalogIndexes
      /\ \A th \in Callers :
           /\ caller'[th] # caller[th]
           /\ th \notin Constructing \cup Constructing'
           => /\ first_call # "none"
              /\ trigger_catalog' = trigger_catalog
              /\ trigger_indexes' = trigger_indexes
    ]_vars

\* Two calls with different transactions raced with the first call, which
\* passed "txn"; all three are at the return statement, and so is the call
\* DropTrigger makes without an argument.
C21_Witness ==
  /\ first_call = "txn"
  /\ \E a, b \in AtReturn :
       /\ caller[a].txn = "txn2"
       /\ caller[b].txn = nullptr
  /\ \E c \in AtReturn : caller[c].txn = "txn"
  /\ trigger_catalog.constructions = 1

\* ------------------------------------------------- string functions

\* A character buffer is the sequence of its characters; advancing a
\* pointer by one (NextByte) is taking the tail.

\* What a string function leaves alone: both catalogs.
stringFrame == <<triggerVars, schemaVars, buildVars, pc, tuple, ret,
                 instanceVars>>

\* The catalogs at rest, as every string function finds them.
CatalogsAtRest ==
  /\ pg_trigger = <<>>
  /\ oid_ = 0
  /\ trigger_indexes = TriggerCatalogIndexes
  /\ trigger_list = [t \in TableNames |-> <<>>]
  /\ pg_namespace = <<>>
  /\ schema_indexes = SchemaCatalogIndexes
  /\ aborted = FALSE
  /\ pc = [th \in Threads |-> "idle"]
  /\ tuple = [th \in Threads |-> NoTuple]
  /\ ret = [op |-> "none", args |-> <<>>, status |-> "return",
            value |-> FALSE, scans |-> 0]
  /\ live = {}
  /\ dropped_oids = {}
  /\ live_schemas = {}
  /\ trigger_catalog = [guard |-> "initialized", txn |-> "txn",
                        constructions |-> 1]
  /\ caller = [th \in Callers |-> IdleCaller]
  /\ first_call = "txn"

\* All character sequences over `alphabet` of at most n characters.
StringsUpTo(alphabet, n) ==
  UNION {[1..k -> alphabet] : k \in 0..n}

\* tolower of <cctype> on the characters in use.
tolower(c) ==
  IF c = "A" THEN "a" ELSE IF c = "B" THEN "b" ELSE c

\* Characters of the texts and of the patterns given to Like.
TextChars == {"a", "A", "b", "%", "_"}
PatternChars == {"a", "B", "%", "_", "\\"}

RECURSIVE Like(_, _)
RECURSIVE LikeLoop(_, _)
RECURSIVE LikePercent(_, _)
RECURSIVE LikeScan(_, _, _)
RECURSIVE LikeRest(_)
RECURSIVE LikeRest_KeepsPercent(_)

\* Faulty variant of LikeRest: the trailing '%' of the pattern are not
\* skipped once the text is used up.
LikeRest_KeepsPercent(p) ==
  Len(p) <= 0

\* Like, after the main loop when the text is used up:
\* `while (plen > 0 && *p == '%') NextByte(p, plen);` and the two returns.
LikeRest(p) ==
  IF Len(p) > 0 /\ p[1] = "%" THEN LikeRest(Tail(p)) ELSE Len(p) <= 0

\* Like, the search `while (tlen > 0)` of the '%' branch: at each position
\* of the text whose character is firstpat, match the rest recursively.
LikeScan(t, p, firstpat) ==
  IF Len(t) > 0
  THEN IF tolower(t[1]) = firstpat /\ Like(t, p)
       THEN TRUE
       ELSE LikeScan(Tail(t), p, firstpat)
  ELSE FALSE

\* Like, the '%' branch after its first NextByte: skip further '%', let
\* each '_' take one character of the text, then end or search.
LikePercent(t, p) ==
  IF Len(p) > 0 /\ p[1] = "%" THEN LikePercent(t, Tail(p))
  ELSE IF Len(p) > 0 /\ p[1] = "_"
  THEN IF Len(t) <= 0 THEN FALSE ELSE LikePercent(Tail(t), Tail(p))
  ELSE IF Len(p) <= 0 THEN TRUE
  ELSE IF p[1] = "\\"
  THEN IF Len(p) < 2 THEN FALSE ELSE LikeScan(t, p, tolower(p[2]))
  ELSE LikeScan(t, p, tolower(p[1]))

\* Like, the main loop `while (tlen > 0 && plen > 0)` and what follows it.
LikeLoop(t, p) ==
  IF Len(t) > 0 /\ Len(p) > 0
  THEN IF p[1] = "\\"
       THEN IF Len(Tail(p)) <= 0 THEN FALSE
            ELSE IF tolower(p[2]) # tolower(t[1]) THEN FALSE
            ELSE LikeLoop(Tail(t), Tail(Tail(p)))
       ELSE IF p[1] = "%" THEN LikePercent(t, Tail(p))
       ELSE IF p[1] = "_" THEN LikeLoop(Tail(t), Tail(p))
       ELSE IF tolower(p[1]) # tolower(t[1]) THEN FALSE
       ELSE LikeLoop(Tail(t), Tail(p))
  ELSE IF Len(t) > 0 THEN FALSE
  ELSE LikeRest(p)

\* StringFunctions::Like(ctx, t, tlen, p, plen), tlen and plen being the
\* lengths of t and p.
Like(t, p) ==
  IF Len(p) = 1 /\ p[1] = "%" THEN TRUE ELSE LikeLoop(t, p)

\* A caller has a text and a pattern.
LikeInit ==
  /\ CatalogsAtRest
  /\ ndebug = FALSE
  /\ \E t \in StringsUpTo(TextChars, MaxLen), p \in StringsUpTo(PatternChars, MaxLen) :
       string_call = [fn |-> "Like", t |-> t, p |-> p, done |-> FALSE]

\* The caller calls Like.
LikeCall ==
  /\ string_call.fn = "Like"
  /\ ~string_call.done
  /\ string_call' = [fn |-> "Like", t |-> string_call.t, p |-> string_call.p,
                     done |-> TRUE,
                     value |-> Like(string_call.t, string_call.p)]
  /\ UNCHANGED stringFrame

LikeNext == LikeCall

LikeSpec == LikeInit /\ [][LikeNext]_vars

\* ---- SQL LIKE, as the pattern language defines it

\* The pattern as a sequence of items: "any" for '%', "one" for '_', and
\* "lit" with its character for an escaped or an ordinary character.  A
\* pattern that ends in a lone backslash has no reading.
RECURSIVE PatternItems(_)
PatternItems(p) ==
  IF p = <<>> THEN <<>>
  ELSE IF p[1] = "\\"
  THEN IF Len(p) = 1 THEN << [kind |-> "none"] >>
       ELSE << [kind |-> "lit", ch |-> p[2]] >> \o PatternItems(Tail(Tail(p)))
  ELSE IF p[1] = "%" THEN << [kind |-> "any"] >> \o PatternItems(Tail(p))
  ELSE IF p[1] = "_" THEN << [kind |-> "one"] >> \o PatternItems(Tail(p))
  ELSE << [kind |-> "lit", ch |-> p[1]] >> \o PatternItems(Tail(p))

\* Two characters that differ at most in case.
SameIgnoringCase(c, d) ==
  \/ c = d
  \/ {c, d} = {"a", "A"}
  \/ {c, d} = {"b", "B"}

\* The text t matches the items: some split of t gives every item its
\* part, any sequence to "any", one character to "one", the same character
\* ignoring case to "lit".
RECURSIVE MatchesItems(_, _)
MatchesItems(t, items) ==
  IF items = <<>> THEN t = <<>>
  ELSE IF items[1].kind = "any"
  THEN \E k \in 0..Len(t) : MatchesItems(SubSeq(t, k + 1, Len(t)), Tail(items))
  ELSE IF items[1].kind = "one"
  THEN t # <<>> /\ MatchesItems(Tail(t), Tail(items))
  ELSE IF items[1].kind = "lit"
  THEN /\ t # <<>>
       /\ SameIgnoringCase(t[1], items[1].ch)
       /\ MatchesItems(Tail(t), Tail(items))
  ELSE FALSE

SqlLike(t, p) == MatchesItems(t, PatternItems(p))

\* C22: whatever the text and the pattern, Like returns true exactly when
\* the text matches the pattern as case-insensitive SQL LIKE: '%' stands for
\* any sequence of characters, '_' for one character, a backslash makes the
\* next pattern character literal, a pattern ending in a lone backslash
\* matches nothing, any other character matches itself ignoring case.
C22_LikeIsSqlLike ==
  (string_call.fn = "Like" /\ string_call.done)
    => (string_call.value <=> SqlLike(string_call.t, string_call.p))

\* Like returned true for a text ending in '%' and the pattern made of
\* the wildcard and an escaped '%': the wildcard skipped two letters and
\* the escaped '%' matched literally.
C22_Witness ==
  /\ string_call.fn = "Like"
  /\ string_call.done
  /\ string_call.value
  /\ string_call.t = <<"A", "b", "%">>
  /\ string_call.p = <<"%", "\\", "%">>

\* ---- Substr

\* Largest and smallest int32_t.
INT32_MAX == 2147483647
INT32_MIN == -INT32_MAX - 1

\* The values of from and len a caller passes: around the positions of the
\* string, and the two ends of int32_t.
SubstrPositions ==
  (-(MaxStrLength + 1))..(MaxStrLength + 2) \cup {INT32_MIN, INT32_MAX}

\* `from + len` or `from + len - 1` leaves the range of int32_t: the
\* addition of two signed integers overflows, which is undefined.
SignedEndOverflows(from, len) ==
  \/ from > 0 /\ len > 0 /\ from > INT32_MAX - len
  \/ from < 0 /\ len < 0 /\ from < INT32_MIN - len
  \/ from <= 0 /\ len <= 0 /\ from + len = INT32_MIN

\* from + len - 1 modulo 2^32, as an int32_t.
SignedEndWrapped(from, len) ==
  IF from > 0 /\ len > 0 /\ from > INT32_MAX - (len - 1)
  THEN ((from - INT32_MAX) - 1) + (((len - 1) - INT32_MAX) - 1)
  ELSE IF from <= 0 /\ len <= 0 /\ from <= INT32_MIN - len
  THEN ((from + INT32_MAX) + (len + INT32_MAX)) + 1
  ELSE IF len > 0 THEN from + (len - 1)
  ELSE (from + len) - 1

\* What signed_end holds after an overflow.  A build that wraps gives the
\* sum modulo 2^32; a build that relies on the absence of overflow may give
\* anything, here a negative value, zero, a position past the string and
\* the largest one.
SignedEndAfterOverflow(from, len) ==
  {SignedEndWrapped(from, len), -1, 0, MaxStrLength + 1, INT32_MAX}

\* Substr, line 99: the values `int32_t signed_end = from + len - 1` can
\* take.
SignedEnd(from, len) ==
  IF SignedEndOverflows(from, len)
  THEN SignedEndAfterOverflow(from, len)
  ELSE {SignedEndWrapped(from, len)}

\* The empty result StrWithLen{nullptr, 0}.
EmptyStrWithLen == [null |-> TRUE, offset |-> 0, length |-> 0]

\* StrWithLen{str + offset, length}.
StrWithLen(offset, length) ==
  [null |-> FALSE, offset |-> offset, length |-> length]

\* Substr from line 100 on, signed_end being computed.
SubstrFrom(str_length, from, signed_end) ==
  IF signed_end < 0 \/ str_length = 0 THEN EmptyStrWithLen
  ELSE LET begin == IF from > 0 THEN from - 1 ELSE 0
           end == IF signed_end > str_length THEN str_length ELSE signed_end
       IN IF begin > end THEN EmptyStrWithLen
          ELSE StrWithLen(begin, end - begin + 1)

\* StringFunctions::Substr(ctx, str, str_length, from, len): the results it
\* can return, one unless the computation of signed_end overflows.
Substr(str_length, from, len) ==
  {SubstrFrom(str_length, from, signed_end) :
     signed_end \in SignedEnd(from, len)}

\* A caller has a string of str_length bytes, a position and a length.
SubstrInit ==
  /\ CatalogsAtRest
  /\ ndebug = FALSE
  /\ \E str_length \in 0..MaxStrLength, from \in SubstrPositions, len \in SubstrPositions :
       string_call = [fn |-> "Substr", str_length |-> str_length,
                      from |-> from, len |-> len, done |-> FALSE]

\* The caller calls Substr.
SubstrCall ==
  /\ string_call.fn = "Substr"
  /\ ~string_call.done
  /\ \E value \in Substr(string_call.str_length, string_call.from, string_call.len) :
       string_call' = [fn |-> "Substr",
                       str_length |-> string_call.str_length,
                       from |-> string_call.from, len |-> string_call.len,
                       done |-> TRUE, value |-> value]
  /\ UNCHANGED stringFrame

SubstrNext == SubstrCall

SubstrSpec == SubstrInit /\ [][SubstrNext]_vars

\* C23: whatever str_length, from and len, Substr returns the empty result
\* {null, 0} or a range inside the buffer of str_length bytes: its start
\* offset plus its length is at most str_length.
C23_SubstrInsideBuffer ==
  (string_call.fn = "Substr" /\ string_call.done) =>
    \/ string_call.value = EmptyStrWithLen
    \/ /\ ~string_call.value.null
       /\ string_call.value.offset + string_call.value.length
            <= string_call.str_length

\* ---- LTrim, RTrim, BTrim, Trim

\* The terminating zero of a C string.
NUL == "NUL"

\* The C string of the characters s: s and its terminating zero.
CString(s) == s \o <<NUL>>

\* Characters of the strings to trim and of the trim sets.
TrimChars == {"a", " ", "x"}
FromChars == {" ", "x"}

\* strchr(s, c) != nullptr: c is among the characters of s up to and
\* including its terminating zero.
strchr(s, c) ==
  \E i \in 1..Len(s) : s[i] = c /\ \A j \in 1..(i - 1) : s[j] # NUL

\* std::max on int.
max(a, b) == IF a >= b THEN a ELSE b

\* StrWithLen{nullptr, 1}.
NullStrWithLen == [null |-> TRUE, offset |-> 0, length |-> 1]

\* `while (head < (int)str_len && strchr(from, str[head]) != nullptr) head++;`
RECURSIVE TrimHead(_, _, _, _)
TrimHead(str, str_len, from, head) ==
  IF head < str_len /\ strchr(from, str[head + 1])
  THEN TrimHead(str, str_len, from, head + 1)
  ELSE head

\* `while (tail >= 0 && strchr(from, str[tail]) != nullptr) tail--;`
RECURSIVE TrimTail(_, _, _)
TrimTail(str, from, tail) ==
  IF tail >= 0 /\ strchr(from, str[tail + 1])
  THEN TrimTail(str, from, tail - 1)
  ELSE tail

\* StringFunctions::LTrim(ctx, str, str_len, from, from_len).  str is the
\* buffer from the pointer on, the offset of the result is relative to it.
LTrim(str, str_len, from) ==
  IF str_len = 1 THEN NullStrWithLen
  ELSE LET tail == (str_len - 1) - 1
           head == TrimHead(str, str_len - 1, from, 0)
       IN StrWithLen(head, max(tail - head + 1, 0) + 1)

\* StringFunctions::RTrim(ctx, str, str_len, from, from_len).
RTrim(str, str_len, from) ==
  IF str_len = 1 THEN NullStrWithLen
  ELSE LET head == 0
           tail == TrimTail(str, from, (str_len - 1) - 1)
       IN StrWithLen(head, max(tail - head + 1, 0) + 1)

\* StringFunctions::BTrim(ctx, str, str_len, from, from_len).
BTrim(str, str_len, from) ==
  IF str_len - 1 = 0 THEN StrWithLen(0, 1)
  ELSE LET tail == TrimTail(str, from, (str_len - 1) - 1)
           head == TrimHead(str, str_len - 1, from, 0)
       IN StrWithLen(head, max(tail - head + 1, 0) + 1)

\* StringFunctions::Trim(ctx, str, str_len): BTrim with " " and from_len 2.
Trim(str, str_len) == BTrim(str, str_len, CString(<<" ">>))

\* A function that has not been called yet, and the result of one that has.
NotCalled == [done |-> FALSE]
Returned(value) ==
  [done |-> TRUE, null |-> value.null, offset |-> value.offset,
   length |-> value.length]

\* A caller has a string and a trim set, both with their terminating zero.
TrimInit ==
  /\ CatalogsAtRest
  /\ ndebug \in BOOLEAN
  /\ \E s \in StringsUpTo(TrimChars, MaxTrimLen), from \in StringsUpTo(FromChars, MaxFromLen) :
       string_call = [fn |-> "Trim", str |-> CString(s),
                      from |-> CString(from), btrim |-> NotCalled,
                      ltrim |-> NotCalled, rtrim |-> NotCalled,
                      trim |-> NotCalled]

trimFrame == <<triggerVars, schemaVars, ndebug, pc, tuple, ret, instanceVars>>

\* The caller calls BTrim on the string.
BTrimCall ==
  /\ string_call.fn = "Trim"
  /\ ~aborted
  /\ ~string_call.btrim.done
  /\ string_call' =
       [string_call EXCEPT !.btrim =
          Returned(BTrim(string_call.str, Len(string_call.str),
                         string_call.from))]
  /\ UNCHANGED <<trimFrame, aborted>>

\* The caller calls LTrim on the string.
LTrimCall ==
  /\ string_call.fn = "Trim"
  /\ ~aborted
  /\ ~string_call.ltrim.done
  /\ string_call' =
       [string_call EXCEPT !.ltrim =
          Returned(LTrim(string_call.str, Len(string_call.str),
                         string_call.from))]
  /\ UNCHANGED <<trimFrame, aborted>>

\* The caller calls RTrim on what LTrim returned: the pointer and the
\* length of the result.  RTrim asserts that the pointer is not null; the
\* offset of its result is taken from the start of the caller's string.
RTrimCall ==
  /\ string_call.fn = "Trim"
  /\ ~aborted
  /\ string_call.ltrim.done
  /\ ~string_call.rtrim.done
  /\ IF string_call.ltrim.null /\ ~ndebug
     THEN /\ aborted' = TRUE
          /\ UNCHANGED string_call
     ELSE /\ \E r \in {RTrim(SubSeq(string_call.str, string_call.ltrim.offset + 1, Len(string_call.str)), string_call.ltrim.length, string_call.from)} :
               string_call' =
                 [string_call EXCEPT !.rtrim =
                    Returned([r EXCEPT !.offset =
                                string_call.ltrim.offset + r.offset])]
          /\ UNCHANGED aborted
  /\ UNCHANGED trimFrame

\* The caller calls Trim on the string.
TrimCall ==
  /\ string_call.fn = "Trim"
  /\ ~aborted
  /\ ~string_call.trim.done
  /\ string_call' =
       [string_call EXCEPT !.trim =
          Returned(Trim(string_call.str, Len(string_call.str)))]
  /\ UNCHANGED <<trimFrame, aborted>>

TrimNext ==
  \/ BTrimCall
  \/ LTrimCall
  \/ RTrimCall
  \/ TrimCall

TrimSpec == TrimInit /\ [][TrimNext]_vars

\* The bytes of the buffer a result covers, its terminating zero aside.
Content(str, r) ==
  IF r.length <= 1 THEN <<>>
  ELSE SubSeq(str, r.offset + 1, r.offset + r.length - 1)

\* The characters of a C string, and the set of them.
CharsOf(s) == SubSeq(s, 1, Len(s) - 1)
CharSet(s) == {s[i] : i \in 1..(Len(s) - 1)}

\* The positions a..b of the slices of s that neither start nor end with a
\* character of the set.
CleanSlices(s, set) ==
  {<<a, b>> \in (1..Len(s)) \X (1..Len(s)) :
     a <= b /\ s[a] \notin set /\ s[b] \notin set}

\* BTrim returned the longest slice of the string that neither starts nor
\* ends with a character of from, its length being the slice's plus one,
\* and the empty slice with length 1 when there is no such slice.
BTrimIsLongestCleanSlice ==
  LET s == CharsOf(string_call.str)
      slices == CleanSlices(s, CharSet(string_call.from))
      r == string_call.btrim
  IN /\ ~r.null
     /\ r.offset + r.length <= Len(string_call.str)
     /\ IF slices = {}
        THEN r.length = 1
        ELSE /\ <<r.offset + 1, r.offset + r.length - 1>> \in slices
             /\ \A sl \in slices : sl[2] - sl[1] + 1 <= r.length - 1

\* C24: for every string and every trim set, BTrim returns the longest
\* slice of the string that neither starts nor ends with a character of
\* from, with the slice's length plus one, and the empty slice with length
\* 1 when every character is in from; applying LTrim and then RTrim to the
\* string gives the same content, no assertion failing on the way; and Trim
\* returns what BTrim returns for the trim set " ".
C24_BTrimIsLTrimThenRTrim ==
  string_call.fn = "Trim" =>
    /\ ~aborted
    /\ string_call.btrim.done => BTrimIsLongestCleanSlice
    /\ (string_call.btrim.done /\ string_call.rtrim.done) =>
         Content(string_call.str, string_call.btrim)
           = Content(string_call.str, string_call.rtrim)
    /\ string_call.trim.done =>
         string_call.trim
           = Returned(BTrim(string_call.str, Len(string_call.str),
                            CString(<<" ">>)))

====
